---- MODULE Spec2Model ----
(***************************************************************************)
(* A model of the BlueOS player: network discovery (scanForPlayers and its *)
(* probe goroutines) and the two device clients (BluesoundClient over      *)
(* HTTP GET, SonosClient over SOAP).                                       *)
(*                                                                         *)
(* Strings of the program are TLA+ strings; TLC evaluates Len, SubSeq and  *)
(* \o on them, so prefix and substring tests are computed, not assumed.    *)
(***************************************************************************)
EXTENDS Integers, Sequences, FiniteSets, TLC

VARIABLES
    \* ---- discovery (scanForPlayers / selectPlayer / main) ----
    osNet,        \* what net.Interfaces() reports (an error, or the interfaces)
    mainpc,       \* position of the main goroutine
    interfaces,   \* scanForPlayers: the enumerated []NetworkInterface
    loopK,        \* scanForPlayers: index of the interface being spawned for
    loopI,        \* scanForPlayers: host number i of the inner loop
    tasks,        \* the probe goroutines started so far, in spawn order
    players,      \* scanForPlayers: the shared []PlayerInfo
    mu,           \* sync.Mutex: 0 when free, else the task holding it
    wg,           \* sync.WaitGroup counter
    selPlayers,   \* selectPlayer: the slice scanForPlayers returned
    fatalErr,     \* the error main ends with (log.Fatalf), "" when none
    nScans,       \* how many times scanForPlayers has been entered
    \* ---- one probe goroutine body on its own (the two probe functions) ----
    probeIP,      \* the address the goroutine was started with
    probeStep,    \* "bluos", "sonos" or "done"
    probeLog,     \* the probes run so far: family, response met, what it returned
    \* ---- one device session (an AudioClient and the calls made on it) ----
    client,       \* the client: family, base URL, SonosClient.favorites
    call,         \* the last call made on the client: what it was given, what
                  \* it requested from the device, what it returned
    \* ---- the interactive session (tuiState and the command loop) ----
    tuiState,     \* the TUIState fields besides client, which is the variable
                  \* client, and lastAction, which is kept with the command
    cmd           \* the command being handled: its words, the state it
                  \* started from, the requests sent, the lastAction it set

scanVars == <<osNet, mainpc, interfaces, loopK, loopI, tasks, players, mu, wg,
              selPlayers, fatalErr, nScans>>

probeVars == <<probeIP, probeStep, probeLog>>

clientVars == <<client, call>>

tuiVars == <<tuiState, cmd>>

\* What the scan, a lone probe goroutine, a device session and the
\* interactive session leave alone.
nonScanVars == <<probeVars, clientVars, tuiVars>>
nonProbeVars == <<scanVars, clientVars, tuiVars>>
nonClientVars == <<scanVars, probeVars, tuiVars>>
nonTuiVars == <<scanVars, probeVars, call>>

vars == <<scanVars, probeVars, clientVars, tuiVars>>

\* ------------------------------------------------------------------------
\* Bounds
\* ------------------------------------------------------------------------

\* Host numbers scanned per subnet are 1..MaxHost (the program scans 1..254).
MaxHost == 1

\* SetVolume is called with the levels -VolMargin .. 100 + VolMargin.
VolMargin == 2

\* PlayPreset is called with the ids 0 .. MaxPresetId.
MaxPresetId == 3

\* ------------------------------------------------------------------------
\* String helpers (strings.HasPrefix, strings.Contains, strings.LastIndex)
\* ------------------------------------------------------------------------

HasPrefix(s, p) == Len(s) >= Len(p) /\ SubSeq(s, 1, Len(p)) = p

Contains(s, p) ==
    \E i \in 1..(Len(s) - Len(p) + 1) : SubSeq(s, i, i + Len(p) - 1) = p

\* Positions of the dots of s.
DotsOf(s) == {i \in 1..Len(s) : SubSeq(s, i, i) = "."}

\* 1-based position of the last "." of s, 0 when there is none.
LastDot(s) == IF DotsOf(s) = {} THEN 0
              ELSE CHOOSE i \in DotsOf(s) : \A j \in DotsOf(s) : j <= i

\* Position of the n-th "." of s (n >= 1), 0 when s has fewer dots.
NthDot(s, n) ==
    IF Cardinality(DotsOf(s)) < n THEN 0
    ELSE CHOOSE i \in DotsOf(s) : Cardinality({j \in DotsOf(s) : j <= i}) = n

\* First position >= from at which p occurs in s, 0 when there is none
\* (strings.Index on the rest of s).
IndexFrom(s, p, from) ==
    LET hits == {i \in from..(Len(s) - Len(p) + 1) : SubSeq(s, i, i + Len(p) - 1) = p}
    IN  IF hits = {} THEN 0 ELSE CHOOSE i \in hits : \A j \in hits : i <= j

\* unicode lower case of one ASCII character.
LowerChar(c) ==
    CASE c = "A" -> "a" [] c = "B" -> "b" [] c = "C" -> "c" [] c = "D" -> "d"
      [] c = "E" -> "e" [] c = "F" -> "f" [] c = "G" -> "g" [] c = "H" -> "h"
      [] c = "I" -> "i" [] c = "J" -> "j" [] c = "K" -> "k" [] c = "L" -> "l"
      [] c = "M" -> "m" [] c = "N" -> "n" [] c = "O" -> "o" [] c = "P" -> "p"
      [] c = "Q" -> "q" [] c = "R" -> "r" [] c = "S" -> "s" [] c = "T" -> "t"
      [] c = "U" -> "u" [] c = "V" -> "v" [] c = "W" -> "w" [] c = "X" -> "x"
      [] c = "Y" -> "y" [] c = "Z" -> "z" [] OTHER -> c

\* strings.ToLower
RECURSIVE ToLower(_)
ToLower(s) ==
    IF Len(s) = 0 THEN ""
    ELSE LowerChar(SubSeq(s, 1, 1)) \o ToLower(SubSeq(s, 2, Len(s)))

Digits == <<"0", "1", "2", "3", "4", "5", "6", "7", "8", "9">>
IsDigit(c) == \E d \in 1..10 : Digits[d] = c
DigitVal(c) == (CHOOSE d \in 1..10 : Digits[d] = c) - 1

RECURSIVE DigitsVal(_, _)
DigitsVal(s, acc) ==
    IF Len(s) = 0 THEN acc
    ELSE DigitsVal(SubSeq(s, 2, Len(s)), acc * 10 + DigitVal(SubSeq(s, 1, 1)))

\* strconv.Atoi: [ok, val]; val is 0 when the text is no decimal integer.
Atoi(s) ==
    LET neg == Len(s) > 0 /\ SubSeq(s, 1, 1) = "-"
        pos == Len(s) > 0 /\ SubSeq(s, 1, 1) = "+"
        ds == IF neg \/ pos THEN SubSeq(s, 2, Len(s)) ELSE s
    IN  IF Len(ds) = 0 \/ \E i \in 1..Len(ds) : ~IsDigit(SubSeq(ds, i, i))
        THEN [ok |-> FALSE, val |-> 0]
        ELSE [ok |-> TRUE, val |-> IF neg THEN 0 - DigitsVal(ds, 0) ELSE DigitsVal(ds, 0)]

\* The first submatch of the pattern  open[^>]*>(.*?)close  in s, as the
\* program's title, creator, album and res patterns are built: [ok, val].
ExtractTag(s, open, close) ==
    LET GtAfter(i) == IndexFrom(s, ">", i + Len(open))
        CloseAfter(i) == IF GtAfter(i) = 0 THEN 0 ELSE IndexFrom(s, close, GtAfter(i) + 1)
        starts == {i \in 1..Len(s) : /\ i + Len(open) - 1 <= Len(s)
                                     /\ SubSeq(s, i, i + Len(open) - 1) = open
                                     /\ CloseAfter(i) # 0}
    IN  IF starts = {} THEN [ok |-> FALSE, val |-> ""]
        ELSE LET i == CHOOSE x \in starts : \A y \in starts : x <= y
             IN  [ok |-> TRUE, val |-> SubSeq(s, GtAfter(i) + 1, CloseAfter(i) - 1)]

\* The entities html.UnescapeString is given in the model.
Entities == << <<"&amp;", "&">>, <<"&lt;", "<">>, <<"&gt;", ">">>,
               <<"&quot;", "\"">>, <<"&#34;", "\"">>, <<"&#39;", "'">> >>

\* html.UnescapeString
RECURSIVE UnescapeString(_)
UnescapeString(s) ==
    IF Len(s) = 0 THEN ""
    ELSE LET hit == {e \in 1..Len(Entities) : HasPrefix(s, Entities[e][1])}
         IN  IF hit = {} THEN SubSeq(s, 1, 1) \o UnescapeString(SubSeq(s, 2, Len(s)))
             ELSE LET e == CHOOSE x \in hit : TRUE
                  IN  Entities[e][2] \o
                      UnescapeString(SubSeq(s, Len(Entities[e][1]) + 1, Len(s)))

\* html.EscapeString
RECURSIVE EscapeString(_)
EscapeString(s) ==
    IF Len(s) = 0 THEN ""
    ELSE LET c == SubSeq(s, 1, 1)
         IN  (CASE c = "&" -> "&amp;" [] c = "'" -> "&#39;" [] c = "<" -> "&lt;"
                [] c = ">" -> "&gt;" [] c = "\"" -> "&#34;" [] OTHER -> c)
             \o EscapeString(SubSeq(s, 2, Len(s)))

\* strings.ReplaceAll(strings.ReplaceAll(s, "<", "&lt;"), ">", "&gt;")
RECURSIVE EscapeAngles(_)
EscapeAngles(s) ==
    IF Len(s) = 0 THEN ""
    ELSE LET c == SubSeq(s, 1, 1)
         IN  (IF c = "<" THEN "&lt;" ELSE IF c = ">" THEN "&gt;" ELSE c)
             \o EscapeAngles(SubSeq(s, 2, Len(s)))

\* strings.TrimSpace
RECURSIVE TrimSpace(_)
TrimSpace(s) ==
    IF Len(s) = 0 THEN ""
    ELSE IF SubSeq(s, 1, 1) = " " THEN TrimSpace(SubSeq(s, 2, Len(s)))
    ELSE IF SubSeq(s, Len(s), Len(s)) = " " THEN TrimSpace(SubSeq(s, 1, Len(s) - 1))
    ELSE s

\* ------------------------------------------------------------------------
\* Network Enumerator (getAllNetworkInterfaces, isUsefulNetwork, getSubnet)
\* ------------------------------------------------------------------------

DeviceTypeBluOS == "bluos"
DeviceTypeSonos == "sonos"

\* isUsefulNetwork: the three allow tests come first, so the two exclusion
\* tests below them see only addresses the allow tests did not match.
isUsefulNetwork(ip) ==
    IF HasPrefix(ip, "192.168.") THEN TRUE
    ELSE IF HasPrefix(ip, "10.0.0.") \/ HasPrefix(ip, "10.0.1.") THEN TRUE
    ELSE IF HasPrefix(ip, "172.16.") \/ HasPrefix(ip, "172.17.") THEN TRUE
    ELSE IF HasPrefix(ip, "10.0.2.") THEN FALSE
    ELSE IF HasPrefix(ip, "172.17.") THEN FALSE
    ELSE TRUE

\* getSubnet: the first three dot-separated parts of an IPv4 address.
getSubnet(ip) == SubSeq(ip, 1, NthDot(ip, 3) - 1)

\* The addresses of one interface that both passes of getAllNetworkInterfaces
\* look at: *net.IPNet, not loopback, IPv4.
RECURSIVE AddrCandidates(_, _)
AddrCandidates(name, addrs) ==
    IF addrs = <<>> THEN <<>>
    ELSE LET a == Head(addrs)
             rest == AddrCandidates(name, Tail(addrs))
         IN  IF a.ipnet /\ ~a.loopback /\ a.v4
             THEN <<[Name |-> name, IP |-> a.ip, Subnet |-> getSubnet(a.ip)]>> \o rest
             ELSE rest

\* The interfaces both passes look at: up, not loopback, Addrs() succeeded.
RECURSIVE IfaceCandidates(_)
IfaceCandidates(ifaces) ==
    IF ifaces = <<>> THEN <<>>
    ELSE LET f == Head(ifaces)
             rest == IfaceCandidates(Tail(ifaces))
         IN  IF ~f.up \/ f.loopback \/ f.addrsErr THEN rest
             ELSE AddrCandidates(f.name, f.addrs) \o rest

\* getAllNetworkInterfaces: [err, list]. The first pass keeps the useful
\* candidates; when it keeps none the second pass keeps every candidate.
getAllNetworkInterfaces(os) ==
    IF os.err THEN [err |-> TRUE, list |-> <<>>]
    ELSE LET all == IfaceCandidates(os.ifaces)
             useful == SelectSeq(all, LAMBDA n : isUsefulNetwork(n.IP))
         IN  [err |-> FALSE, list |-> IF Len(useful) = 0 THEN all ELSE useful]

\* One address of an interface as the OS reports it.
V4(ip) == [ip |-> ip, ipnet |-> TRUE, v4 |-> TRUE, loopback |-> FALSE]
V6(ip) == [ip |-> ip, ipnet |-> TRUE, v4 |-> FALSE, loopback |-> FALSE]
Iface(name, addrs) ==
    [name |-> name, up |-> TRUE, loopback |-> FALSE, addrsErr |-> FALSE, addrs |-> addrs]
Lo == [name |-> "lo", up |-> TRUE, loopback |-> TRUE, addrsErr |-> FALSE,
       addrs |-> <<[ip |-> "127.0.0.1", ipnet |-> TRUE, v4 |-> TRUE, loopback |-> TRUE]>>]
DownIface(name, addrs) ==
    [name |-> name, up |-> FALSE, loopback |-> FALSE, addrsErr |-> FALSE, addrs |-> addrs]

\* The local network configurations the model starts from.
NetConfigs ==
    { [err |-> TRUE, ifaces |-> <<>>],
      [err |-> FALSE, ifaces |-> <<>>],
      [err |-> FALSE, ifaces |-> <<Lo, DownIface("eth1", <<V4("192.168.1.9")>>)>>],
      [err |-> FALSE, ifaces |-> <<Lo, Iface("eth0", <<V4("192.168.1.5"), V6("fe80::1")>>)>>],
      [err |-> FALSE, ifaces |-> <<Iface("eth0", <<V4("192.168.1.5")>>),
                                   Iface("wlan0", <<V4("192.168.1.6")>>)>>],
      [err |-> FALSE, ifaces |-> <<Iface("eth0", <<V4("192.168.1.5")>>),
                                   Iface("vbox0", <<V4("10.0.2.15")>>)>>],
      [err |-> FALSE, ifaces |-> <<Iface("vbox0", <<V4("10.0.2.15")>>)>>],
      [err |-> FALSE, ifaces |-> <<Iface("eth0", <<V4("10.0.0.3")>>),
                                   Iface("docker0", <<V4("172.17.0.1")>>)>>] }

\* ------------------------------------------------------------------------
\* Interface Prober (checkForBluOSPlayer, checkForSonosPlayer)
\* ------------------------------------------------------------------------

\* An HTTP exchange as the prober sees it: client.Get fails (timeout or
\* connection refused), or answers with a status; the body may fail to read.
HttpFail(why, nobody) ==
    [err |-> TRUE, why |-> why, status |-> 0, readErr |-> FALSE, body |-> nobody]
HttpResp(status, body) ==
    [err |-> FALSE, why |-> "", status |-> status, readErr |-> FALSE, body |-> body]
HttpUnreadable(nobody) ==
    [err |-> FALSE, why |-> "", status |-> 200, readErr |-> TRUE, body |-> nobody]

NoPlayer == [IP |-> "", Name |-> "", Brand |-> "", Model |-> "", Type |-> ""]

\* Bodies a /SyncStatus request can carry: an XML document with its root
\* element and the three attributes, or text that is not XML.
SyncStatusDoc == [xml |-> TRUE, root |-> "SyncStatus",
                  name |-> "Living Room", brand |-> "Bluesound", model |-> "NODE"]
OtherXmlDoc == [xml |-> TRUE, root |-> "html", name |-> "", brand |-> "", model |-> ""]
NotXml == [xml |-> FALSE, root |-> "", name |-> "", brand |-> "", model |-> ""]

\* xml.Unmarshal into SyncStatus (XMLName `xml:"SyncStatus"`): an error for
\* text that is not XML and for a document with another root element.
UnmarshalSyncStatusFails(body) == ~body.xml \/ body.root # "SyncStatus"

BluOSResponses ==
    { HttpFail("timeout", NotXml), HttpFail("refused", NotXml), HttpResp(404, NotXml),
      HttpResp(500, SyncStatusDoc), HttpUnreadable(NotXml), HttpResp(200, NotXml),
      HttpResp(200, OtherXmlDoc), HttpResp(200, SyncStatusDoc) }

\* A probe that does not look at the status code.
checkForBluOSPlayerAnyStatus(ip, resp) ==
    IF resp.err THEN [found |-> FALSE, player |-> NoPlayer]
    ELSE IF resp.readErr THEN [found |-> FALSE, player |-> NoPlayer]
    ELSE IF UnmarshalSyncStatusFails(resp.body) THEN [found |-> FALSE, player |-> NoPlayer]
    ELSE [found |-> TRUE,
          player |-> [IP |-> ip, Name |-> resp.body.name, Brand |-> resp.body.brand,
                      Model |-> resp.body.model, Type |-> DeviceTypeBluOS]]

checkForBluOSPlayer(ip, resp) ==
    IF resp.err THEN [found |-> FALSE, player |-> NoPlayer]
    ELSE IF resp.status # 200 THEN [found |-> FALSE, player |-> NoPlayer]
    ELSE IF resp.readErr THEN [found |-> FALSE, player |-> NoPlayer]
    ELSE IF UnmarshalSyncStatusFails(resp.body) THEN [found |-> FALSE, player |-> NoPlayer]
    ELSE [found |-> TRUE,
          player |-> [IP |-> ip, Name |-> resp.body.name, Brand |-> resp.body.brand,
                      Model |-> resp.body.model, Type |-> DeviceTypeBluOS]]

\* Bodies a device-description request can carry. text is the document;
\* friendly is what the friendlyName extraction and clean-up leave ("Sonos
\* Player" when the element is absent), model the trimmed modelName ("Sonos"
\* when absent).
SonosDoc == [text |-> "<root><manufacturer>Sonos, Inc.</manufacturer></root>",
             friendly |-> "Kitchen", model |-> "Sonos One"]
RinconDoc == [text |-> "<root><UDN>uuid:RINCON_000E58</UDN></root>",
              friendly |-> "192.168.1.1", model |-> "Sonos"]
ForeignDoc == [text |-> "<root><manufacturer>Acme</manufacturer></root>",
               friendly |-> "Acme Box", model |-> "Acme 1"]

NoDoc == [text |-> "", friendly |-> "", model |-> ""]

SonosResponses ==
    { HttpFail("timeout", NoDoc), HttpFail("refused", NoDoc), HttpResp(404, ForeignDoc),
      HttpResp(500, SonosDoc), HttpUnreadable(NoDoc), HttpResp(200, ForeignDoc),
      HttpResp(200, RinconDoc), HttpResp(200, SonosDoc) }

\* The name checkForSonosPlayer settles on after the extraction.
SonosName(ip, body) ==
    IF Len(body.friendly) > 50 \/ Contains(body.friendly, ".") \/ body.friendly = ""
    THEN IF body.model # "Sonos" /\ body.model # "" THEN body.model
         ELSE "Sonos-" \o SubSeq(ip, LastDot(ip) + 1, Len(ip))
    ELSE body.friendly

checkForSonosPlayer(ip, resp) ==
    IF resp.err THEN [found |-> FALSE, player |-> NoPlayer]
    ELSE IF resp.status # 200 THEN [found |-> FALSE, player |-> NoPlayer]
    ELSE IF resp.readErr THEN [found |-> FALSE, player |-> NoPlayer]
    ELSE IF ~Contains(resp.body.text, "Sonos") /\ ~Contains(resp.body.text, "RINCON")
         THEN [found |-> FALSE, player |-> NoPlayer]
    ELSE [found |-> TRUE,
          player |-> [IP |-> ip, Name |-> SonosName(ip, resp.body), Brand |-> "Sonos",
                      Model |-> resp.body.model, Type |-> DeviceTypeSonos]]

\* ------------------------------------------------------------------------
\* Discovery Scanner (scanForPlayers) and player selection (selectPlayer)
\* ------------------------------------------------------------------------

ErrCouldNotDetermineIP == "could not determine local IP"
ErrNoInterfaces == "no network interfaces found"
ErrNoPlayers == "no BlueOS players found"

\* The responses a probe of the given family meets during a scan: the scan
\* depends on a probe only through found and the player it returns.
ScanResponses(fam) ==
    IF fam = DeviceTypeBluOS
    THEN {HttpFail("timeout", NotXml), HttpResp(200, SyncStatusDoc)}
    ELSE {HttpFail("timeout", NoDoc), HttpResp(200, SonosDoc)}

\* The probe of the given family.
checkFor(fam, ip, resp) ==
    IF fam = DeviceTypeBluOS THEN checkForBluOSPlayer(ip, resp)
    ELSE checkForSonosPlayer(ip, resp)

\* A dedup that compares nothing.
PlayerExistsNever(ps, ip) == FALSE

\* A dedup that takes every player for one it has.
PlayerExistsAlways(ps, ip) == TRUE

\* The loop over players that sets exists: an entry with the same IP.
PlayerExists(ps, ip) == \E n \in 1..Len(ps) : ps[n].IP = ip

\* A selectPlayer that accepts an empty slice.
NoPlayersFoundNever(ps) == FALSE

\* selectPlayer: len(players) == 0
NoPlayersFound(ps) == Len(ps) = 0

\* A mutex that excludes nobody.
MutexAlwaysFree == TRUE

\* A mutex that is never handed over.
MutexNeverFree == FALSE

\* mu.Lock() returns only while no goroutine holds the mutex.
MutexFree == mu = 0

\* A scan with no wait-barrier.
WaitGroupIgnored == TRUE

\* wg.Wait() returns only when the counter is zero.
WaitGroupDone == wg = 0

TaskIds == 1..Len(tasks)

\* An inner loop that starts at host number 0.
ProbeIPFromZero(subnet, i) == subnet \o "." \o ToString(i - 1)

\* fmt.Sprintf("%s.%d", iface.Subnet, i)
ProbeIP(subnet, i) == subnet \o "." \o ToString(i)

\* A goroutine that starts with the Sonos probe.
NewTaskSonosFirst(ip) ==
    [ip |-> ip, pc |-> "probe", fam |-> DeviceTypeSonos, player |-> NoPlayer,
     exists |-> FALSE, probed |-> 0, sent |-> <<>>, found |-> <<>>]

NewTask(ip) ==
    [ip |-> ip, pc |-> "probe", fam |-> DeviceTypeBluOS, player |-> NoPlayer,
     exists |-> FALSE, probed |-> 0, sent |-> <<>>, found |-> <<>>]

\* main -> selectPlayer -> scanForPlayers: enumerate the interfaces; an
\* enumeration error and an empty list both end the scan with an error,
\* which selectPlayer returns and main ends on (log.Fatalf).
ScanStart ==
    /\ mainpc = "start"
    /\ nScans' = nScans + 1
    /\ LET r == getAllNetworkInterfaces(osNet)
       IN  IF r.err
           THEN /\ fatalErr' = ErrCouldNotDetermineIP
                /\ mainpc' = "fatal"
                /\ UNCHANGED interfaces
           ELSE IF Len(r.list) = 0
           THEN /\ fatalErr' = ErrNoInterfaces
                /\ mainpc' = "fatal"
                /\ UNCHANGED interfaces
           ELSE /\ interfaces' = r.list
                /\ mainpc' = "spawn"
                /\ UNCHANGED fatalErr
    /\ loopK' = 1
    /\ loopI' = 1
    /\ UNCHANGED <<osNet, tasks, players, mu, wg, selPlayers, nonScanVars>>

\* One iteration of the inner loop: wg.Add(1) and go func(ip).
Spawn ==
    /\ mainpc = "spawn"
    /\ wg' = wg + 1
    /\ tasks' = Append(tasks, NewTask(ProbeIP(interfaces[loopK].Subnet, loopI)))
    /\ IF loopI < MaxHost
       THEN /\ loopI' = loopI + 1
            /\ UNCHANGED <<loopK, mainpc>>
       ELSE IF loopK < Len(interfaces)
       THEN /\ loopI' = 1
            /\ loopK' = loopK + 1
            /\ UNCHANGED mainpc
       ELSE /\ mainpc' = "wait"
            /\ UNCHANGED <<loopK, loopI>>
    /\ UNCHANGED <<osNet, interfaces, players, mu, selPlayers, fatalErr, nScans, nonScanVars>>

\* wg.Wait() returns, scanForPlayers returns players, and selectPlayer
\* tests the length of what it got.
ScanReturn ==
    /\ mainpc = "wait"
    /\ WaitGroupDone
    /\ selPlayers' = players
    /\ IF NoPlayersFound(players)
       THEN /\ fatalErr' = ErrNoPlayers
            /\ mainpc' = "fatal"
       ELSE /\ mainpc' = "select"
            /\ UNCHANGED fatalErr
    /\ UNCHANGED <<osNet, interfaces, loopK, loopI, tasks, players, mu, wg, nScans, nonScanVars>>

\* A probe goroutine runs the probe of its current family; logged says
\* whether what the probe reported is kept on record in found.
ProbeStep(t, logged) ==
    /\ tasks[t].pc = "probe"
    /\ \E resp \in ScanResponses(tasks[t].fam) :
         LET r == checkFor(tasks[t].fam, tasks[t].ip, resp)
         IN  tasks' = [tasks EXCEPT ![t].player = r.player,
                                    ![t].probed = @ + 1,
                                    ![t].sent = Append(@, tasks[t].fam),
                                    ![t].found = IF logged THEN Append(@, r.found) ELSE @,
                                    ![t].pc = IF r.found THEN "lock"
                                              ELSE IF tasks[t].fam = DeviceTypeBluOS
                                                   THEN "probe" ELSE "exit",
                                    ![t].fam = IF r.found THEN @ ELSE DeviceTypeSonos]
    /\ UNCHANGED <<osNet, mainpc, interfaces, loopK, loopI, players, mu, wg,
                   selPlayers, fatalErr, nScans, nonScanVars>>

Probe(t) == ProbeStep(t, FALSE)
ProbeLogged(t) == ProbeStep(t, TRUE)

\* mu.Lock(), then the loop over players that computes exists. The loop runs
\* with the mutex held, so it is one step with the acquisition.
LockAndCheck(t) ==
    /\ tasks[t].pc = "lock"
    /\ MutexFree
    /\ mu' = t
    /\ tasks' = [tasks EXCEPT ![t].exists = PlayerExists(players, tasks[t].player.IP),
                              ![t].pc = "append"]
    /\ UNCHANGED <<osNet, mainpc, interfaces, loopK, loopI, players, wg,
                   selPlayers, fatalErr, nScans, nonScanVars>>

\* if !exists { players = append(players, player) }, then mu.Unlock(). After
\* the BluOS block the Sonos probe follows, after the Sonos block the
\* goroutine body ends.
AppendAndUnlock(t) ==
    /\ tasks[t].pc = "append"
    /\ players' = IF tasks[t].exists THEN players ELSE Append(players, tasks[t].player)
    /\ mu' = 0
    /\ tasks' = [tasks EXCEPT ![t].pc = IF tasks[t].fam = DeviceTypeBluOS
                                        THEN "probe" ELSE "exit",
                              ![t].fam = DeviceTypeSonos,
                              ![t].player = NoPlayer,
                              ![t].exists = FALSE]
    /\ UNCHANGED <<osNet, mainpc, interfaces, loopK, loopI, wg,
                   selPlayers, fatalErr, nScans, nonScanVars>>

\* defer wg.Done()
TaskExit(t) ==
    /\ tasks[t].pc = "exit"
    /\ wg' = wg - 1
    /\ tasks' = [tasks EXCEPT ![t].pc = "done"]
    /\ UNCHANGED <<osNet, mainpc, interfaces, loopK, loopI, players, mu,
                   selPlayers, fatalErr, nScans, nonScanVars>>

\* The state scanForPlayers starts from.
\* The zero Status
NoStatus == [State |-> "", Song |-> "", Artist |-> "", Album |-> "", Volume |-> 0]

\* A method's value when it returns only an error
NoVal == [kind |-> "none", status |-> NoStatus, presets |-> <<>>]

\* No device selected, and no call made
NoClient == [type |-> "", baseURL |-> "", favorites |-> <<>>]
NoCall ==
    [op |-> "", argInt |-> 0, argStr |-> "", pre |-> NoClient, err |-> "", reqs |-> <<>>,
     val |-> NoVal]

\* The zero TUIState, and no command read
NoTui ==
    [playerName |-> "", status |-> [nil |-> TRUE, st |-> NoStatus], presets |-> <<>>,
     statusError |-> "", presetsError |-> "", availablePlayers |-> <<>>]
NoCmd ==
    [name |-> "", arg |-> "", preClient |-> NoClient, preState |-> NoTui,
     lastAction |-> "", reqs |-> <<>>]

TuiIdle ==
    /\ tuiState = NoTui
    /\ cmd = NoCmd

ClientIdle ==
    /\ client = NoClient
    /\ call = NoCall
    /\ TuiIdle

ScanIdle ==
    /\ osNet \in NetConfigs
    /\ mainpc = "start"
    /\ interfaces = <<>>
    /\ loopK = 1
    /\ loopI = 1
    /\ tasks = <<>>
    /\ players = <<>>
    /\ mu = 0
    /\ wg = 0
    /\ selPlayers = <<>>
    /\ fatalErr = ""
    /\ nScans = 0

\* The part of the state the probe goroutine on its own does not use.
ProbeIdle ==
    /\ probeIP = ""
    /\ probeStep = "idle"
    /\ probeLog = <<>>

InitScan ==
    /\ ScanIdle
    /\ ProbeIdle
    /\ ClientIdle

NextScan ==
    \/ ScanStart
    \/ Spawn
    \/ ScanReturn
    \/ \E t \in TaskIds : Probe(t)
    \/ \E t \in TaskIds : LockAndCheck(t)
    \/ \E t \in TaskIds : AppendAndUnlock(t)
    \/ \E t \in TaskIds : TaskExit(t)

SpecScan == InitScan /\ [][NextScan]_vars

\* ------------------------------------------------------------------------
\* Properties of discovery (checked under SpecScan)
\* ------------------------------------------------------------------------

\* scanForPlayers has returned its slice to selectPlayer.
ScanReturned ==
    \/ mainpc = "select"
    \/ mainpc = "fatal" /\ fatalErr = ErrNoPlayers

DistinctIPs(ps) ==
    \A m, n \in 1..Len(ps) : m # n => ps[m].IP # ps[n].IP

\* C2: under every interleaving of the probe goroutines the shared slice, and
\* so the slice scanForPlayers returns, never holds two entries with the
\* same address: not when one subnet is enumerated through two interfaces
\* and not when one address answers both family probes.
C2_NoDuplicateAddress ==
    /\ DistinctIPs(players)
    /\ DistinctIPs(selPlayers)

\* A goroutine found a player at an address another goroutine probes too
\* (one subnet, two interfaces), and the address was already in the slice.
C2_Witness ==
    \E t, u \in TaskIds :
        /\ t # u
        /\ tasks[t].ip = tasks[u].ip
        /\ tasks[u].pc = "done"
        /\ tasks[t].pc = "append"
        /\ tasks[t].exists
        /\ Len(players) = 1

\* C3: the slice reaches selectPlayer only after every probe goroutine that
\* was started has finished; before that selectPlayer holds nothing, and
\* what it holds is the final content of the shared slice.
C3_ReturnAfterAllProbes ==
    /\ ScanReturned =>
         /\ Len(tasks) = MaxHost * Len(interfaces)
         /\ \A t \in TaskIds : tasks[t].pc = "done" /\ tasks[t].probed = 2
         /\ selPlayers = players
    /\ ~ScanReturned => selPlayers = <<>>

\* The scan of two interfaces has returned with a device found.
C3_Witness ==
    /\ mainpc = "select"
    /\ Len(tasks) >= 2
    /\ Len(selPlayers) >= 1

\* C4: at most one goroutine is between its existence check and its append,
\* it is the one holding the mutex, and the result of its check still
\* describes the slice: nobody appended in between.
C4_MutexSection ==
    /\ Cardinality({t \in TaskIds : tasks[t].pc = "append"}) <= 1
    /\ \A t \in TaskIds :
         tasks[t].pc = "append" =>
            /\ mu = t
            /\ tasks[t].exists = PlayerExists(players, tasks[t].player.IP)
    /\ (mu # 0) => (mu \in TaskIds /\ tasks[mu].pc = "append")

\* One goroutine is inside the section while another waits for the mutex.
C4_Witness ==
    \E t, u \in TaskIds :
        /\ t # u
        /\ tasks[t].pc = "append"
        /\ tasks[u].pc = "lock"
        /\ tasks[t].player.IP = tasks[u].player.IP

\* C5: an empty enumeration ends the scan with the no-interfaces error and
\* no probe goroutine; a scan that ran every probe and found nothing ends
\* player selection with the no-devices error, a different error; the scan
\* is entered once.
C5_DiscoveryErrors ==
    /\ ErrNoInterfaces # ErrNoPlayers
    /\ nScans <= 1
    /\ (mainpc # "start" /\ ~osNet.err /\ Len(getAllNetworkInterfaces(osNet).list) = 0) =>
         /\ mainpc = "fatal"
         /\ fatalErr = ErrNoInterfaces
         /\ tasks = <<>>
    /\ fatalErr = ErrNoInterfaces => (tasks = <<>> /\ interfaces = <<>> /\ ~osNet.err)
    /\ (ScanReturned /\ Len(selPlayers) = 0) =>
         /\ mainpc = "fatal"
         /\ fatalErr = ErrNoPlayers
    /\ fatalErr = ErrNoPlayers =>
         /\ mainpc = "fatal"
         /\ Len(interfaces) > 0
         /\ Len(tasks) = MaxHost * Len(interfaces)
         /\ \A t \in TaskIds : tasks[t].pc = "done" /\ tasks[t].probed = 2
         /\ players = <<>>

\* Every probe of a scan over two interfaces reported not-found.
C5_Witness ==
    /\ fatalErr = ErrNoPlayers
    /\ Len(tasks) >= 2

\* ------------------------------------------------------------------------
\* The probe goroutine body on its own: the BluOS probe, then the Sonos
\* probe, of one address, against every response a probe can meet.
\* ------------------------------------------------------------------------

\* The addresses a scan of the modelled networks probes.
ProbeAddrs ==
    UNION { { ProbeIP(getAllNetworkInterfaces(c).list[k].Subnet, i) :
                k \in 1..Len(getAllNetworkInterfaces(c).list), i \in 1..MaxHost } :
            c \in NetConfigs }

\* if player, found := checkForBluOSPlayer(ip); found { ... }
RunBluOSProbe ==
    /\ probeStep = "bluos"
    /\ \E resp \in BluOSResponses :
         probeLog' = Append(probeLog, [fam |-> DeviceTypeBluOS, resp |-> resp,
                                       out |-> checkForBluOSPlayer(probeIP, resp)])
    /\ probeStep' = "sonos"
    /\ UNCHANGED <<probeIP, nonProbeVars>>

\* if player, found := checkForSonosPlayer(ip); found { ... }
RunSonosProbe ==
    /\ probeStep = "sonos"
    /\ \E resp \in SonosResponses :
         probeLog' = Append(probeLog, [fam |-> DeviceTypeSonos, resp |-> resp,
                                       out |-> checkForSonosPlayer(probeIP, resp)])
    /\ probeStep' = "done"
    /\ UNCHANGED <<probeIP, nonProbeVars>>

InitProbe ==
    /\ ScanIdle
    /\ osNet = [err |-> FALSE, ifaces |-> <<>>]
    /\ probeIP \in ProbeAddrs
    /\ probeStep = "bluos"
    /\ probeLog = <<>>
    /\ ClientIdle

NextProbe ==
    \/ RunBluOSProbe
    \/ RunSonosProbe

SpecProbe == InitProbe /\ [][NextProbe]_vars

\* The responses the claim lists: no answer (timeout, refused), a status
\* other than 200, a body that cannot be read, an identity document that
\* does not parse, a description without the signature token.
ProbeFailure(fam, resp) ==
    \/ resp.err
    \/ resp.status # 200
    \/ resp.readErr
    \/ fam = DeviceTypeBluOS /\ resp.body \in {NotXml, OtherXmlDoc}
    \/ fam = DeviceTypeSonos /\ resp.body \in {ForeignDoc, NoDoc}

\* C6: a probe ends as found, with a device at the probed address and of
\* the probing family, or as not-found with no device; every failure the
\* claim lists ends as not-found; and whatever the BluOS probe met, the
\* goroutine goes on to the Sonos probe and to its end.
C6_ProbeOutcome ==
    /\ \A n \in 1..Len(probeLog) :
         LET e == probeLog[n]
         IN  /\ e.out.found \in BOOLEAN
             /\ e.out.found => (e.out.player.IP = probeIP /\ e.out.player.Type = e.fam)
             /\ ~e.out.found => e.out.player = NoPlayer
             /\ ProbeFailure(e.fam, e.resp) => ~e.out.found
    /\ probeStep = "sonos" => (Len(probeLog) = 1 /\ probeLog[1].fam = DeviceTypeBluOS)
    /\ probeStep = "done" => (Len(probeLog) = 2 /\ probeLog[2].fam = DeviceTypeSonos)

\* The BluOS probe got a non-200 answer and the Sonos probe then found a
\* device.
C6_Witness ==
    /\ probeStep = "done"
    /\ ~probeLog[1].resp.err
    /\ probeLog[1].resp.status # 200
    /\ ~probeLog[1].out.found
    /\ probeLog[2].out.found
    /\ probeLog[2].out.player.Type = DeviceTypeSonos

\* ------------------------------------------------------------------------
\* Device Client contract: what a call returns
\* ------------------------------------------------------------------------

BluesoundPort == "11000"
SonosPort == "1400"

\* What a method returns besides its error: nothing, a *Status, a []Preset.
StatusVal(st) == [kind |-> "status", status |-> st, presets |-> <<>>]
PresetsVal(ps) == [kind |-> "presets", status |-> NoStatus, presets |-> ps]

\* One run of a method: the favorites cache it leaves, the error it returns
\* ("" for nil), the requests it sent with the response each met, its value.
Run(favs, err, reqs, val) == [favorites |-> favs, err |-> err, reqs |-> reqs, val |-> val]

\* A request: an HTTP GET of an endpoint, or a SOAP POST of an action with
\* its parameters.
Get(endpoint, resp) ==
    [via |-> "GET", target |-> endpoint, arg |-> "", meta |-> "", resp |-> resp]
Soap(action, arg, meta, resp) ==
    [via |-> "SOAP", target |-> action, arg |-> arg, meta |-> meta, resp |-> resp]

\* ------------------------------------------------------------------------
\* REST variant (BluesoundClient)
\* ------------------------------------------------------------------------

NewBluesoundClient(ip) ==
    [type |-> DeviceTypeBluOS, baseURL |-> "http://" \o ip \o ":" \o BluesoundPort,
     favorites |-> <<>>]

\* What the device answers a GET with: a document with a root element, the
\* presets or the status it carries, or text that is not XML.
RestDoc(root, presets, status) ==
    [xml |-> TRUE, root |-> root, presets |-> presets, status |-> status]
RestNotXml == [xml |-> FALSE, root |-> "", presets |-> <<>>, status |-> NoStatus]

DevicePresets ==
    << [ID |-> 1, Name |-> "Spotify Daily Mix", URL |-> "Spotify:daily", Image |-> "/i/1"],
       [ID |-> 2, Name |-> "Radio Paradise", URL |-> "RadioParadise:/0", Image |-> "/i/2"],
       [ID |-> 3, Name |-> "Classical WQXR", URL |-> "TuneIn:s1", Image |-> "/i/3"] >>

DeviceStatus ==
    [State |-> "play", Song |-> "So What", Artist |-> "Miles Davis",
     Album |-> "Kind of Blue", Volume |-> 35]

RestResponses ==
    { HttpFail("timeout", RestNotXml), HttpResp(500, RestNotXml),
      HttpUnreadable(RestNotXml), HttpResp(200, RestNotXml),
      HttpResp(200, RestDoc("presets", DevicePresets, NoStatus)),
      HttpResp(200, RestDoc("status", <<>>, DeviceStatus)) }

\* makeRequest: [err, data]
makeRequest(resp) ==
    IF resp.err THEN [err |-> "request failed", data |-> RestNotXml]
    ELSE IF resp.status # 200
         THEN [err |-> "API returned status " \o ToString(resp.status), data |-> RestNotXml]
    ELSE IF resp.readErr THEN [err |-> "failed to read response", data |-> RestNotXml]
    ELSE [err |-> "", data |-> resp.body]

\* A client that asks once more when its request fails.
BluesoundSimpleRetrying(cl, endpoint) ==
    { IF makeRequest(r).err = ""
      THEN Run(cl.favorites, "", <<Get(endpoint, r)>>, NoVal)
      ELSE Run(cl.favorites, makeRequest(r2).err, <<Get(endpoint, r), Get(endpoint, r2)>>, NoVal)
      : r \in RestResponses, r2 \in RestResponses }

\* The methods that are one makeRequest whose data is dropped.
BluesoundSimple(cl, endpoint) ==
    { Run(cl.favorites, makeRequest(r).err, <<Get(endpoint, r)>>, NoVal) : r \in RestResponses }

BluesoundGetPresets(cl) ==
    { LET m == makeRequest(r)
      IN  IF m.err # "" THEN Run(cl.favorites, m.err, <<Get("/Presets", r)>>, NoVal)
          ELSE IF ~m.data.xml \/ m.data.root # "presets"
               THEN Run(cl.favorites, "failed to parse presets XML", <<Get("/Presets", r)>>, NoVal)
          ELSE Run(cl.favorites, "", <<Get("/Presets", r)>>, PresetsVal(m.data.presets))
      : r \in RestResponses }

\* A GetStatus that drops the error of xml.Unmarshal and returns what it has.
BluesoundGetStatusLenient(cl) ==
    { LET m == makeRequest(r)
      IN  IF m.err # "" THEN Run(cl.favorites, m.err, <<Get("/Status", r)>>, NoVal)
          ELSE Run(cl.favorites, "", <<Get("/Status", r)>>, StatusVal(m.data.status))
      : r \in RestResponses }

BluesoundGetStatus(cl) ==
    { LET m == makeRequest(r)
      IN  IF m.err # "" THEN Run(cl.favorites, m.err, <<Get("/Status", r)>>, NoVal)
          ELSE IF ~m.data.xml \/ m.data.root # "status"
               THEN Run(cl.favorites, "failed to parse status XML", <<Get("/Status", r)>>, NoVal)
          ELSE Run(cl.favorites, "", <<Get("/Status", r)>>, StatusVal(m.data.status))
      : r \in RestResponses }

BluesoundPlayPreset(cl, id) == BluesoundSimple(cl, "/Preset?id=" \o ToString(id))
BluesoundPlay(cl) == BluesoundSimple(cl, "/Play")
BluesoundPause(cl) == BluesoundSimple(cl, "/Pause")
BluesoundStop(cl) == BluesoundSimple(cl, "/Stop")
BluesoundNext(cl) == BluesoundSimple(cl, "/Skip")
BluesoundPrevious(cl) == BluesoundSimple(cl, "/Back")

ErrVolumeRange == "volume must be between 0 and 100"

\* A range check that lets 101 through.
BluesoundSetVolumeOffByOne(cl, level) ==
    IF level < 0 \/ level > 101
    THEN {Run(cl.favorites, ErrVolumeRange, <<>>, NoVal)}
    ELSE BluesoundSimple(cl, "/Volume?level=" \o ToString(level))

BluesoundSetVolume(cl, level) ==
    IF level < 0 \/ level > 100
    THEN {Run(cl.favorites, ErrVolumeRange, <<>>, NoVal)}
    ELSE BluesoundSimple(cl, "/Volume?level=" \o ToString(level))

BluesoundAddSlave(cl, slaveIP) == BluesoundSimple(cl, "/AddSlave?slave=" \o slaveIP)
BluesoundRemoveSlave(cl, slaveIP) == BluesoundSimple(cl, "/RemoveSlave?slave=" \o slaveIP)
BluesoundRemoveAllSlaves(cl) == BluesoundSimple(cl, "/RemoveAllSlaves")
BluesoundLeaveGroup(cl) == BluesoundSimple(cl, "/LeaveGroup")

\* ------------------------------------------------------------------------
\* SOAP variant (SonosClient): requests, transport and volume control
\* ------------------------------------------------------------------------

NewSonosClient(ip) ==
    [type |-> DeviceTypeSonos, baseURL |-> "http://" \o ip \o ":" \o SonosPort,
     favorites |-> <<>>]

\* What the device answers a SOAP POST with: an envelope (a document whose
\* root is Envelope) carrying the fields of the response element, or text
\* that is not XML. items are the <item id=...> elements of a Browse Result
\* after the first unescape, each the text between its tags.
Envelope(state, meta, vol, items) ==
    [xml |-> TRUE, root |-> "Envelope", state |-> state, meta |-> meta, vol |-> vol,
     hasResult |-> TRUE, items |-> items]
SoapNotXml ==
    [xml |-> FALSE, root |-> "", state |-> "", meta |-> "", vol |-> "",
     hasResult |-> FALSE, items |-> <<>>]
EmptyEnvelope == Envelope("", "", "", <<>>)

\* makeSoapRequest: [err, data]
makeSoapRequest(resp) ==
    IF resp.err THEN [err |-> "SOAP request failed", data |-> SoapNotXml]
    ELSE IF resp.status # 200
         THEN [err |-> "SOAP request failed with status " \o ToString(resp.status),
               data |-> SoapNotXml]
    ELSE IF resp.readErr THEN [err |-> "unexpected EOF", data |-> SoapNotXml]
    ELSE [err |-> "", data |-> resp.body]

\* xml.Unmarshal into SonosGetPositionInfoResponse (XMLName `xml:"Envelope"`)
UnmarshalEnvelopeFails(data) == ~data.xml \/ data.root # "Envelope"

\* What a device answers an action with no result of interest.
SoapAcks ==
    { HttpFail("timeout", SoapNotXml), HttpResp(500, SoapNotXml), HttpResp(200, EmptyEnvelope) }

\* The methods that are one makeSoapRequest whose data is dropped.
SonosSimple(cl, action, arg) ==
    { Run(cl.favorites, makeSoapRequest(r).err, <<Soap(action, arg, "", r)>>, NoVal)
      : r \in SoapAcks }

SonosPlay(cl) == SonosSimple(cl, "AVTransport#Play", "")
SonosPause(cl) == SonosSimple(cl, "AVTransport#Pause", "")
SonosStop(cl) == SonosSimple(cl, "AVTransport#Stop", "")
SonosNext(cl) == SonosSimple(cl, "AVTransport#Next", "")
SonosPrevious(cl) == SonosSimple(cl, "AVTransport#Previous", "")

SonosSetVolume(cl, level) ==
    IF level < 0 \/ level > 100
    THEN {Run(cl.favorites, ErrVolumeRange, <<>>, NoVal)}
    ELSE SonosSimple(cl, "RenderingControl#SetVolume", ToString(level))

ErrSonosGrouping == "Sonos grouping not yet implemented"

\* A grouping call that is passed on to the device as the REST variant does.
SonosAddSlaveForwarded(cl, slaveIP) == SonosSimple(cl, "AVTransport#AddSlave", slaveIP)

SonosAddSlave(cl, slaveIP) == {Run(cl.favorites, ErrSonosGrouping, <<>>, NoVal)}
SonosRemoveSlave(cl, slaveIP) == {Run(cl.favorites, ErrSonosGrouping, <<>>, NoVal)}
SonosRemoveAllSlaves(cl) == {Run(cl.favorites, ErrSonosGrouping, <<>>, NoVal)}
SonosLeaveGroup(cl) == {Run(cl.favorites, ErrSonosGrouping, <<>>, NoVal)}

\* ------------------------------------------------------------------------
\* SOAP variant: GetStatus
\* ------------------------------------------------------------------------

TrackMeta ==
    "<item><dc:title>So What</dc:title><dc:creator>Miles &amp; Co</dc:creator>"
    \o "<upnp:album>Kind of Blue</upnp:album></item>"

TransportInfoResponses ==
    { HttpFail("timeout", SoapNotXml), HttpResp(500, SoapNotXml),
      HttpUnreadable(SoapNotXml), HttpResp(200, SoapNotXml),
      HttpResp(200, [EmptyEnvelope EXCEPT !.root = "html"]),
      HttpResp(200, Envelope("PLAYING", "", "", <<>>)),
      HttpResp(200, Envelope("PAUSED_PLAYBACK", "", "", <<>>)) }

PositionInfoResponses ==
    { HttpFail("timeout", SoapNotXml), HttpResp(500, SoapNotXml),
      HttpUnreadable(SoapNotXml), HttpResp(200, SoapNotXml),
      HttpResp(200, Envelope("", "", "", <<>>)),
      HttpResp(200, Envelope("", TrackMeta, "", <<>>)) }

VolumeResponses ==
    { HttpFail("timeout", SoapNotXml), HttpResp(500, SoapNotXml),
      HttpUnreadable(SoapNotXml), HttpResp(200, SoapNotXml),
      HttpResp(200, Envelope("", "", "", <<>>)),
      HttpResp(200, Envelope("", "", "35", <<>>)) }

\* parseSonosMetadata: [song, artist, album]
parseSonosMetadata(metadata) ==
    LET t == ExtractTag(metadata, "<dc:title", "</dc:title>")
        c == ExtractTag(metadata, "<dc:creator", "</dc:creator>")
        a == ExtractTag(metadata, "<upnp:album", "</upnp:album>")
    IN  [song |-> IF t.ok THEN UnescapeString(t.val) ELSE "",
         artist |-> IF c.ok THEN UnescapeString(c.val) ELSE "",
         album |-> IF a.ok THEN UnescapeString(a.val) ELSE ""]

\* The status GetStatus falls back to.
StoppedStatus == [State |-> "stopped", Song |-> "", Artist |-> "", Album |-> "", Volume |-> 0]

TransportInfoReq(r) == Soap("AVTransport#GetTransportInfo", "", "", r)
PositionInfoReq(r) == Soap("AVTransport#GetPositionInfo", "", "", r)
VolumeReq(r) == Soap("RenderingControl#GetVolume", "", "", r)

\* A GetVolume step that returns the error of a failed request.
SonosStatusVolumePropagating(cl, reqs, state, md) ==
    { LET m == makeSoapRequest(r3)
      IN  IF m.err # "" THEN Run(cl.favorites, m.err, Append(reqs, VolumeReq(r3)), NoVal)
          ELSE Run(cl.favorites, "", Append(reqs, VolumeReq(r3)),
                   StatusVal([State |-> state, Song |-> md.song, Artist |-> md.artist,
                              Album |-> md.album,
                              Volume |-> IF UnmarshalEnvelopeFails(m.data) THEN 0
                                         ELSE Atoi(m.data.vol).val]))
      : r3 \in VolumeResponses }

\* A GetStatus that gives up the track when the volume cannot be had.
SonosStatusVolumeForgetful(cl, reqs, state, md) ==
    { LET m == makeSoapRequest(r3)
      IN  IF m.err = "" /\ ~UnmarshalEnvelopeFails(m.data)
          THEN Run(cl.favorites, "", Append(reqs, VolumeReq(r3)),
                   StatusVal([State |-> state, Song |-> md.song, Artist |-> md.artist,
                              Album |-> md.album, Volume |-> Atoi(m.data.vol).val]))
          ELSE Run(cl.favorites, "", Append(reqs, VolumeReq(r3)),
                   StatusVal([State |-> state, Song |-> "", Artist |-> "", Album |-> "",
                              Volume |-> 0]))
      : r3 \in VolumeResponses }

\* GetStatus from the GetVolume request on: the volume stays 0 unless the
\* request, the unmarshalling and (its error dropped) the Atoi all succeed.
SonosStatusVolume(cl, reqs, state, md) ==
    { LET m == makeSoapRequest(r3)
          volume == IF m.err = "" /\ ~UnmarshalEnvelopeFails(m.data)
                    THEN Atoi(m.data.vol).val ELSE 0
      IN  Run(cl.favorites, "", Append(reqs, VolumeReq(r3)),
              StatusVal([State |-> state, Song |-> md.song, Artist |-> md.artist,
                         Album |-> md.album, Volume |-> volume]))
      : r3 \in VolumeResponses }

\* A GetStatus that asks for the volume before the position.
SonosStatusPositionVolumeFirst(cl, reqs, state) ==
    UNION { SonosStatusVolume(cl, reqs \o <<VolumeReq(r3), PositionInfoReq(r2)>>, state,
                              parseSonosMetadata(makeSoapRequest(r2).data.meta))
            : r2 \in PositionInfoResponses, r3 \in VolumeResponses }

\* A GetStatus that asks for the volume whatever became of the position.
SonosStatusPositionAlwaysVolume(cl, reqs, state) ==
    UNION { LET m == makeSoapRequest(r2)
            IN  IF m.err # "" \/ UnmarshalEnvelopeFails(m.data)
                THEN SonosStatusVolume(cl, Append(reqs, PositionInfoReq(r2)), state,
                                       [song |-> "", artist |-> "", album |-> ""])
                ELSE SonosStatusVolume(cl, Append(reqs, PositionInfoReq(r2)), state,
                                       parseSonosMetadata(m.data.meta))
            : r2 \in PositionInfoResponses }

\* GetStatus from the GetPositionInfo request on.
SonosStatusPosition(cl, reqs, state) ==
    UNION { LET m == makeSoapRequest(r2)
                basic == StatusVal([State |-> state, Song |-> "", Artist |-> "",
                                    Album |-> "", Volume |-> 0])
            IN  IF m.err # "" \/ UnmarshalEnvelopeFails(m.data)
                THEN {Run(cl.favorites, "", Append(reqs, PositionInfoReq(r2)), basic)}
                ELSE SonosStatusVolume(cl, Append(reqs, PositionInfoReq(r2)), state,
                                       parseSonosMetadata(m.data.meta))
            : r2 \in PositionInfoResponses }

\* A GetStatus that keeps the volume of an earlier query when the
\* GetTransportInfo request fails.
SonosGetStatusStaleVolume(cl) ==
    UNION { LET m == makeSoapRequest(r1)
            IN  IF m.err # "" \/ UnmarshalEnvelopeFails(m.data)
                THEN {Run(cl.favorites, "", <<TransportInfoReq(r1)>>,
                          StatusVal([StoppedStatus EXCEPT !.Volume = 35]))}
                ELSE SonosStatusPosition(cl, <<TransportInfoReq(r1)>>, ToLower(m.data.state))
            : r1 \in TransportInfoResponses }

SonosGetStatus(cl) ==
    UNION { LET m == makeSoapRequest(r1)
            IN  IF m.err # "" \/ UnmarshalEnvelopeFails(m.data)
                THEN {Run(cl.favorites, "", <<TransportInfoReq(r1)>>, StatusVal(StoppedStatus))}
                ELSE SonosStatusPosition(cl, <<TransportInfoReq(r1)>>, ToLower(m.data.state))
            : r1 \in TransportInfoResponses }

\* ------------------------------------------------------------------------
\* SOAP variant: favorites
\* ------------------------------------------------------------------------

JazzItem == "<dc:title>Jazz FM</dc:title><res>x-sonosapi-stream:s1</res>"
JazzAgainItem == "<dc:title>Jazz FM</dc:title><res>x-rincon-mp3radio://jazz</res>"
RnbItem == "<dc:title> R&amp;B Hits </dc:title><res protocolInfo=\"a\">http://s.example/rnb</res>"
SongItem == "<dc:title>My Song</dc:title><res>x-file-cifs://nas/a.mp3</res>"
StreamOnlyItem == "<dc:title>Stream One</dc:title>"
UntitledItem == "<res>http://s.example/x</res>"
InfoItem == "<dc:title>[INFO] Tips</dc:title><res>https://s.example/tips</res>"

radioObjectIDs == <<"R:0/0", "R:0/1", "FV:2", "A:RADIO", "SQ:">>

\* What the device answers the Browse of a root with.
BrowseResponses(oid) ==
    CASE oid = "R:0/0" ->
           { HttpFail("timeout", SoapNotXml), HttpResp(200, Envelope("", "", "", <<>>)),
             HttpResp(200, Envelope("", "", "", <<JazzItem, SongItem, RnbItem>>)) }
      [] oid = "R:0/1" ->
           { HttpResp(500, SoapNotXml),
             HttpResp(200, Envelope("", "", "", <<JazzAgainItem, StreamOnlyItem>>)) }
      [] oid = "FV:2" ->
           { HttpResp(200, SoapNotXml),
             HttpResp(200, Envelope("", "", "", <<UntitledItem, JazzItem>>)) }
      [] oid = "A:RADIO" ->
           { HttpUnreadable(SoapNotXml), HttpResp(200, Envelope("", "", "", <<InfoItem>>)) }
      [] OTHER ->
           { HttpFail("timeout", SoapNotXml), HttpResp(200, Envelope("", "", "", <<SongItem>>)) }

\* parseFavoritesFromResponse
\* The favorites made of the items that have a title.
TitledFavorites(kept) ==
    [i \in 1..Len(kept) |->
       [ID |-> kept[i].ID, Name |-> TrimSpace(kept[i].title),
        URI |-> kept[i].URI, Meta |-> kept[i].Meta]]

parseFavoritesFromResponse(data) ==
    IF ~data.hasResult THEN <<>>
    ELSE LET parsed == [i \in 1..Len(data.items) |->
                          LET t == ExtractTag(data.items[i], "<dc:title", "</dc:title>")
                              r == ExtractTag(data.items[i], "<res", "</res>")
                          IN  [ID |-> i,
                               title |-> IF t.ok THEN UnescapeString(t.val) ELSE "",
                               URI |-> IF r.ok THEN UnescapeString(r.val) ELSE "",
                               Meta |-> data.items[i]]]
             Titled(f) == f.title # ""
         IN  TitledFavorites(SelectSeq(parsed, Titled))

\* browseForRadioContent: the favorites of one Browse response
browseForRadioContent(resp) ==
    IF resp.err \/ resp.status # 200 \/ resp.readErr THEN <<>>
    ELSE parseFavoritesFromResponse(resp.body)

radioPatterns ==
    {"x-sonosapi-stream:", "x-sonosapi-radio:", "x-rincon-mp3radio:", "http://",
     "https://", "mms://", "rtsp://", "x-sonos-http:"}
radioNamePatterns == {"Radio", "FM", "AM", "Stream", "Live"}

\* An isRadioStation whose name test is case-sensitive.
isRadioStationCaseSensitive(fav) ==
    \/ \E p \in radioPatterns : HasPrefix(fav.URI, p)
    \/ Contains(fav.Meta, "object.item.audioItem.audioBroadcast")
    \/ Contains(fav.Meta, "object.item.audioItem.radio")
    \/ Contains(fav.Meta, "radioBroadcast")
    \/ \E p \in radioNamePatterns : Contains(fav.Name, p)

isRadioStation(fav) ==
    \/ \E p \in radioPatterns : HasPrefix(fav.URI, p)
    \/ Contains(fav.Meta, "object.item.audioItem.audioBroadcast")
    \/ Contains(fav.Meta, "object.item.audioItem.radio")
    \/ Contains(fav.Meta, "radioBroadcast")
    \/ \E p \in radioNamePatterns : Contains(ToLower(fav.Name), ToLower(p))

\* The filter loop of browseSonosRadioStations over the favorites of one root.
RECURSIVE AddRadioFavorites(_, _)
AddRadioFavorites(all, favs) ==
    IF favs = <<>> THEN all
    ELSE LET fav == Head(favs)
             isDuplicate == \E i \in 1..Len(all) :
                               all[i].URI = fav.URI \/ all[i].Name = fav.Name
         IN  AddRadioFavorites(IF isRadioStation(fav) /\ ~isDuplicate
                               THEN Append(all, fav) ELSE all,
                               Tail(favs))

RECURSIVE BrowseRoots(_, _, _)
BrowseRoots(resps, k, all) ==
    IF k > Len(resps) THEN all
    ELSE BrowseRoots(resps, k + 1, AddRadioFavorites(all, browseForRadioContent(resps[k])))

\* A browseSonosRadioStations that keeps the ids the parser gave.
browseSonosRadioStationsUnnumbered(resps) == BrowseRoots(resps, 1, <<>>)

\* "Renumber the favorites"
Renumber(all) == [i \in 1..Len(all) |-> [all[i] EXCEPT !.ID = i]]

\* browseSonosRadioStations, given the response each root's Browse meets
browseSonosRadioStations(resps) == Renumber(BrowseRoots(resps, 1, <<>>))

\* A fallback that leaves the list empty.
InfoFavoritesNone == <<>>

InfoFavorites ==
    << [ID |-> 1, Name |-> "[INFO] No Sonos Radio favorites found", URI |-> "", Meta |-> ""],
       [ID |-> 2, Name |-> "[INFO] Add radio stations in the Sonos app", URI |-> "", Meta |-> ""] >>

BrowseReqs(resps) ==
    [k \in 1..Len(resps) |-> Soap("ContentDirectory#Browse", radioObjectIDs[k], "", resps[k])]

\* What the Browse of the k-th root can meet: in the interactive session only
\* the first two content roots hold items.
Browsable(k) ==
    IF tuiState = NoTui THEN BrowseResponses(radioObjectIDs[k])
    ELSE { r \in BrowseResponses(radioObjectIDs[k]) :
              (~r.err /\ r.status = 200 /\ ~r.readErr /\ r.body.xml) => k <= 2 }

\* The responses the five Browse requests of one load can meet.
BrowseOutcomes ==
    { <<a, b, c, d, e>> : a \in Browsable(1), b \in Browsable(2), c \in Browsable(3),
                          d \in Browsable(4), e \in Browsable(5) }

\* loadFavorites past the cache test, given the response each root's
\* Browse meets: [favorites, reqs]
\* The radio favorites found, or the placeholders when there are none.
OrInfoFavorites(radioFavorites) ==
    IF Len(radioFavorites) > 0 THEN radioFavorites ELSE InfoFavorites

LoadFrom(resps) ==
    [favorites |-> OrInfoFavorites(browseSonosRadioStations(resps)),
     reqs |-> BrowseReqs(resps)]

\* A loadFavorites that browses again whatever the cache holds.
loadFavoritesUncached(cl) == { LoadFrom(resps) : resps \in BrowseOutcomes }

\* A loadFavorites that does not take the placeholders for a loaded list.
loadFavoritesRetryingInfo(cl) ==
    IF Len(cl.favorites) > 0 /\ cl.favorites # InfoFavorites
    THEN {[favorites |-> cl.favorites, reqs |-> <<>>]}
    ELSE { LoadFrom(resps) : resps \in BrowseOutcomes }

\* loadFavorites: [favorites, reqs], its error being always nil
loadFavorites(cl) ==
    IF Len(cl.favorites) > 0 THEN {[favorites |-> cl.favorites, reqs |-> <<>>]}
    ELSE { LoadFrom(resps) : resps \in BrowseOutcomes }

\* The []Preset GetPresets builds from the cache.
PresetsOf(favs) ==
    [i \in 1..Len(favs) |->
       [ID |-> favs[i].ID, Name |-> favs[i].Name, URL |-> favs[i].URI, Image |-> ""]]

\* A GetPresets that browses on every call.
SonosGetPresetsReloading(cl) ==
    { Run(l.favorites, "", l.reqs, PresetsVal(PresetsOf(l.favorites)))
      : l \in loadFavoritesUncached(cl) }

SonosGetPresets(cl) ==
    { Run(l.favorites, "", l.reqs, PresetsVal(PresetsOf(l.favorites)))
      : l \in loadFavorites(cl) }

\* ------------------------------------------------------------------------
\* SOAP variant: PlayPreset
\* ------------------------------------------------------------------------

\* The runs of a method's tail, after the requests reqs already sent.
After(reqs, runs) == { [x EXCEPT !.reqs = reqs \o x.reqs] : x \in runs }

DidlOpen ==
    "&lt;DIDL-Lite xmlns:dc=\"http://purl.org/dc/elements/1.1/\" "
    \o "xmlns:upnp=\"urn:schemas-upnp-org:metadata-1-0/upnp/\" "
    \o "xmlns=\"urn:schemas-upnp-org:metadata-1-0/DIDL-Lite/\"&gt;"
DidlClose == "&lt;/DIDL-Lite&gt;"

\* The metadata PlayPreset sends with the URI.
FavoriteMetadata(favorite) ==
    IF favorite.Meta # ""
    THEN DidlOpen \o "&lt;item id=\"FAVORITE\"&gt;" \o EscapeAngles(favorite.Meta)
         \o "&lt;/item&gt;" \o DidlClose
    ELSE DidlOpen \o "&lt;item id=\"R:0/0\"&gt;&lt;dc:title&gt;" \o EscapeString(favorite.Name)
         \o "&lt;/dc:title&gt;&lt;upnp:class&gt;object.item.audioItem.audioBroadcast"
         \o "&lt;/upnp:class&gt;&lt;/item&gt;" \o DidlClose

\* The metadata playRadioStation sends with the enqueued URI.
QueueMetadata(favorite) ==
    DidlOpen \o "&lt;item id=\"R:0/0\"&gt;&lt;dc:title&gt;" \o EscapeString(favorite.Name)
    \o "&lt;/dc:title&gt;&lt;upnp:class&gt;object.item.audioItem.audioBroadcast"
    \o "&lt;/upnp:class&gt;&lt;/item&gt;" \o DidlClose

\* A fallback that seeks before it enqueues.
playRadioStationSeekFirst(cl, favorite) ==
    UNION { LET head == << Soap("AVTransport#RemoveAllTracksFromQueue", "", "", c),
                           Soap("AVTransport#SetPlayMode", "NORMAL", "", m),
                           Soap("AVTransport#Seek", "1", "", k),
                           Soap("AVTransport#AddURIToQueue", EscapeString(favorite.URI),
                                QueueMetadata(favorite), a) >>
            IN  IF makeSoapRequest(a).err # ""
                THEN {Run(cl.favorites, "failed to add radio to queue", head, NoVal)}
                ELSE After(head, SonosPlay(cl))
            : c \in SoapAcks, m \in SoapAcks, a \in SoapAcks, k \in SoapAcks }

\* A fallback that gives up when the queue cannot be cleared.
playRadioStationStrict(cl, favorite) ==
    UNION { IF makeSoapRequest(c).err # ""
            THEN {Run(cl.favorites, "failed to clear queue",
                      <<Soap("AVTransport#RemoveAllTracksFromQueue", "", "", c)>>, NoVal)}
            ELSE UNION { LET head == << Soap("AVTransport#RemoveAllTracksFromQueue", "", "", c),
                                        Soap("AVTransport#SetPlayMode", "NORMAL", "", m),
                                        Soap("AVTransport#AddURIToQueue",
                                             EscapeString(favorite.URI),
                                             QueueMetadata(favorite), a) >>
                         IN  IF makeSoapRequest(a).err # ""
                             THEN {Run(cl.favorites, "failed to add radio to queue", head, NoVal)}
                             ELSE UNION { After(Append(head,
                                                       Soap("AVTransport#Seek", "1", "", k)),
                                                SonosPlay(cl))
                                          : k \in SoapAcks }
                         : m \in SoapAcks, a \in SoapAcks }
            : c \in SoapAcks }

playRadioStation(cl, favorite) ==
    UNION { LET head == << Soap("AVTransport#RemoveAllTracksFromQueue", "", "", c),
                           Soap("AVTransport#SetPlayMode", "NORMAL", "", m),
                           Soap("AVTransport#AddURIToQueue", EscapeString(favorite.URI),
                                QueueMetadata(favorite), a) >>
            IN  IF makeSoapRequest(a).err # ""
                THEN {Run(cl.favorites, "failed to add radio to queue", head, NoVal)}
                ELSE UNION { After(Append(head, Soap("AVTransport#Seek", "1", "", k)),
                                   SonosPlay(cl))
                             : k \in SoapAcks }
            : c \in SoapAcks, m \in SoapAcks, a \in SoapAcks }

\* What the device answers SetAVTransportURI with.
SetURIResponses ==
    { HttpFail("timeout", SoapNotXml), HttpResp(500, SoapNotXml),
      HttpUnreadable(SoapNotXml), HttpResp(200, EmptyEnvelope) }

\* A PlayPreset that falls back to the queue for every refused URI.
SetAVTransportURIAlwaysFallback(cl, favorite) ==
    UNION { LET req == << Soap("AVTransport#SetAVTransportURI", EscapeString(favorite.URI),
                               FavoriteMetadata(favorite), r) >>
            IN  IF r.err THEN {Run(cl.favorites, "SOAP request failed", req, NoVal)}
                ELSE IF r.status # 200 THEN After(req, playRadioStation(cl, favorite))
                ELSE After(req, SonosPlay(cl))
            : r \in SetURIResponses }

\* A PlayPreset that leaves an accepted URI unplayed.
SetAVTransportURIWithoutPlay(cl, favorite) ==
    UNION { LET req == << Soap("AVTransport#SetAVTransportURI", EscapeString(favorite.URI),
                               FavoriteMetadata(favorite), r) >>
            IN  IF r.err THEN {Run(cl.favorites, "SOAP request failed", req, NoVal)}
                ELSE IF r.status # 200
                THEN IF Contains(favorite.URI, "x-sonosapi") \/ Contains(favorite.URI, "radio")
                     THEN After(req, playRadioStation(cl, favorite))
                     ELSE {Run(cl.favorites,
                               "SetAVTransportURI failed with status " \o ToString(r.status),
                               req, NoVal)}
                ELSE {Run(cl.favorites, "", req, NoVal)}
            : r \in SetURIResponses }

\* PlayPreset from the SetAVTransportURI request on.
SetAVTransportURI(cl, favorite) ==
    UNION { LET req == << Soap("AVTransport#SetAVTransportURI", EscapeString(favorite.URI),
                               FavoriteMetadata(favorite), r) >>
            IN  IF r.err THEN {Run(cl.favorites, "SOAP request failed", req, NoVal)}
                ELSE IF r.status # 200
                THEN IF Contains(favorite.URI, "x-sonosapi") \/ Contains(favorite.URI, "radio")
                     THEN After(req, playRadioStation(cl, favorite))
                     ELSE {Run(cl.favorites,
                               "SetAVTransportURI failed with status " \o ToString(r.status),
                               req, NoVal)}
                ELSE After(req, SonosPlay(cl))
            : r \in SetURIResponses }

ErrFavoriteNotFound == "favorite not found"
ErrInfoEntry == "this is an info entry, not playable"
ErrNoURI == "no URI available for this favorite"

\* A PlayPreset that plays the first favorite when the id names none.
PlayFavoriteDefaulting(cl, id) ==
    LET hits == {i \in 1..Len(cl.favorites) : cl.favorites[i].ID = id}
        favorite == IF hits = {} THEN cl.favorites[1]
                    ELSE cl.favorites[CHOOSE i \in hits : \A j \in hits : i <= j]
    IN  IF HasPrefix(favorite.Name, "[INFO]")
        THEN {Run(cl.favorites, ErrInfoEntry, <<>>, NoVal)}
        ELSE IF favorite.URI = "" THEN {Run(cl.favorites, ErrNoURI, <<>>, NoVal)}
        ELSE SetAVTransportURI(cl, favorite)

\* A PlayPreset that does not look at the URI before it sends it.
PlayFavoriteAnyURI(cl, id) ==
    LET hits == {i \in 1..Len(cl.favorites) : cl.favorites[i].ID = id}
        favorite == cl.favorites[CHOOSE i \in hits : \A j \in hits : i <= j]
    IN  IF hits = {} THEN {Run(cl.favorites, ErrFavoriteNotFound, <<>>, NoVal)}
        ELSE IF HasPrefix(favorite.Name, "[INFO]")
        THEN {Run(cl.favorites, ErrInfoEntry, <<>>, NoVal)}
        ELSE SetAVTransportURI(cl, favorite)

\* PlayPreset once the favorites are loaded.
PlayFavorite(cl, id) ==
    LET hits == {i \in 1..Len(cl.favorites) : cl.favorites[i].ID = id}
        favorite == cl.favorites[CHOOSE i \in hits : \A j \in hits : i <= j]
    IN  IF hits = {} THEN {Run(cl.favorites, ErrFavoriteNotFound, <<>>, NoVal)}
        ELSE IF HasPrefix(favorite.Name, "[INFO]")
        THEN {Run(cl.favorites, ErrInfoEntry, <<>>, NoVal)}
        ELSE IF favorite.URI = "" THEN {Run(cl.favorites, ErrNoURI, <<>>, NoVal)}
        ELSE SetAVTransportURI(cl, favorite)

SonosPlayPreset(cl, id) ==
    UNION { After(l.reqs, PlayFavorite([cl EXCEPT !.favorites = l.favorites], id))
            : l \in loadFavorites(cl) }

\* ------------------------------------------------------------------------
\* DebugAPI of both variants
\* ------------------------------------------------------------------------

\* A method's value when it returns a line of text
TextVal == [kind |-> "text", status |-> NoStatus, presets |-> <<>>]

debugEndpoints == <<"/Status", "/SyncStatus", "/Presets", "/RemoveSlave", "/AddSlave", "/Slaves">>

\* What the device answers a request of DebugAPI with.
RestDebugResponses == { HttpFail("timeout", RestNotXml), HttpResp(200, RestNotXml) }
SoapDebugResponses == { HttpFail("timeout", SoapNotXml), HttpResp(200, EmptyEnvelope) }

BluesoundDebugAPI(cl) ==
    { Run(cl.favorites, "", [k \in 1..Len(debugEndpoints) |-> Get(debugEndpoints[k], rs[k])],
          TextVal)
      : rs \in [1..Len(debugEndpoints) -> RestDebugResponses] }

\* DebugAPI: unreachable device, or the three service tests and a forced
\* reload of the favorites.
SonosDebugAPI(cl) ==
    UNION { IF d.err
            THEN {Run(cl.favorites, "", <<Get("/xml/device_description.xml", d)>>, TextVal)}
            ELSE { Run(l.favorites, "",
                       << Get("/xml/device_description.xml", d),
                          Soap("AVTransport#GetTransportInfo", "", "", t[1]),
                          Soap("RenderingControl#GetVolume", "", "", t[2]),
                          Soap("ContentDirectory#Browse", "0", "", t[3]) >> \o l.reqs,
                       TextVal)
                   : t \in [1..3 -> SoapDebugResponses],
                     l \in loadFavorites([cl EXCEPT !.favorites = <<>>]) }
            : d \in SoapDebugResponses }

\* ------------------------------------------------------------------------
\* Device session: one client, one call at a time
\* ------------------------------------------------------------------------

ClientAddrs == {"192.168.1.10"}
SlaveAddrs == {"192.168.1.20", ""}
Volumes == (0 - VolMargin)..(100 + VolMargin)
PresetIds == 0..MaxPresetId

\* A method of the client is called and returns one of its runs.
Invoke(op, argInt, argStr, runs) ==
    /\ client # NoClient
    /\ call = NoCall
    /\ \E run \in runs :
         /\ client' = [client EXCEPT !.favorites = run.favorites]
         /\ call' = [op |-> op, argInt |-> argInt, argStr |-> argStr, pre |-> client,
                     err |-> run.err, reqs |-> run.reqs, val |-> run.val]
    /\ UNCHANGED nonClientVars

IsBluOS == client.type = DeviceTypeBluOS

GetPresets ==
    Invoke("GetPresets", 0, "",
           IF IsBluOS THEN BluesoundGetPresets(client) ELSE SonosGetPresets(client))
GetStatus ==
    Invoke("GetStatus", 0, "",
           IF IsBluOS THEN BluesoundGetStatus(client) ELSE SonosGetStatus(client))
PlayPreset ==
    \E id \in PresetIds :
       Invoke("PlayPreset", id, "",
              IF IsBluOS THEN BluesoundPlayPreset(client, id) ELSE SonosPlayPreset(client, id))
Play == Invoke("Play", 0, "", IF IsBluOS THEN BluesoundPlay(client) ELSE SonosPlay(client))
Pause == Invoke("Pause", 0, "", IF IsBluOS THEN BluesoundPause(client) ELSE SonosPause(client))
Stop == Invoke("Stop", 0, "", IF IsBluOS THEN BluesoundStop(client) ELSE SonosStop(client))
SkipNext == Invoke("Next", 0, "", IF IsBluOS THEN BluesoundNext(client) ELSE SonosNext(client))
Previous ==
    Invoke("Previous", 0, "",
           IF IsBluOS THEN BluesoundPrevious(client) ELSE SonosPrevious(client))
SetVolume ==
    \E level \in Volumes :
       Invoke("SetVolume", level, "",
              IF IsBluOS THEN BluesoundSetVolume(client, level)
              ELSE SonosSetVolume(client, level))
AddSlave ==
    \E slaveIP \in SlaveAddrs :
       Invoke("AddSlave", 0, slaveIP,
              IF IsBluOS THEN BluesoundAddSlave(client, slaveIP)
              ELSE SonosAddSlave(client, slaveIP))
RemoveSlave ==
    \E slaveIP \in SlaveAddrs :
       Invoke("RemoveSlave", 0, slaveIP,
              IF IsBluOS THEN BluesoundRemoveSlave(client, slaveIP)
              ELSE SonosRemoveSlave(client, slaveIP))
RemoveAllSlaves ==
    Invoke("RemoveAllSlaves", 0, "",
           IF IsBluOS THEN BluesoundRemoveAllSlaves(client) ELSE SonosRemoveAllSlaves(client))
LeaveGroup ==
    Invoke("LeaveGroup", 0, "",
           IF IsBluOS THEN BluesoundLeaveGroup(client) ELSE SonosLeaveGroup(client))

DebugAPI ==
    Invoke("DebugAPI", 0, "",
           IF IsBluOS THEN BluesoundDebugAPI(client) ELSE SonosDebugAPI(client))

\* The caller has taken the result and is ready for its next call.
NextCommand ==
    /\ call # NoCall
    /\ call' = NoCall
    /\ UNCHANGED <<client, nonClientVars>>

InitClient ==
    /\ ScanIdle
    /\ osNet = [err |-> FALSE, ifaces |-> <<>>]
    /\ ProbeIdle
    /\ client \in {NewBluesoundClient(ip) : ip \in ClientAddrs}
                  \cup {NewSonosClient(ip) : ip \in ClientAddrs}
    /\ call = NoCall
    /\ TuiIdle

NextClient ==
    \/ GetPresets
    \/ GetStatus
    \/ PlayPreset
    \/ Play
    \/ Pause
    \/ Stop
    \/ SkipNext
    \/ Previous
    \/ SetVolume
    \/ AddSlave
    \/ RemoveSlave
    \/ RemoveAllSlaves
    \/ LeaveGroup
    \/ DebugAPI
    \/ NextCommand

SpecClient == InitClient /\ [][NextClient]_vars

\* ------------------------------------------------------------------------
\* Properties of the device session
\* ------------------------------------------------------------------------

IsSonosCall(op) == call.op = op /\ call.pre.type = DeviceTypeSonos

\* The request failed as the caller of the HTTP client sees it.
RequestFailed(req) == req.resp.err \/ req.resp.status # 200 \/ req.resp.readErr

\* The volume a SetVolume request carries, read back from its text.
VolumeCarried(req) ==
    IF req.via = "GET"
    THEN IF HasPrefix(req.target, "/Volume?level=")
         THEN Atoi(SubSeq(req.target, Len("/Volume?level=") + 1, Len(req.target)))
         ELSE [ok |-> FALSE, val |-> 0]
    ELSE IF req.target = "RenderingControl#SetVolume" THEN Atoi(req.arg)
         ELSE [ok |-> FALSE, val |-> 0]

\* C1: on both variants SetVolume(v) returns the validation error and sends
\* no request if and only if v < 0 or v > 100; for v in 0..100 it sends
\* exactly one request, which carries v, and returns no validation error.
C1_SetVolumeValidation ==
    call.op = "SetVolume" =>
       LET v == call.argInt
       IN  /\ (v < 0 \/ v > 100) <=> (call.err = ErrVolumeRange /\ call.reqs = <<>>)
           /\ v \in 0..100 =>
                 /\ Len(call.reqs) = 1
                 /\ VolumeCarried(call.reqs[1]) = [ok |-> TRUE, val |-> v]
                 /\ call.err # ErrVolumeRange

C1_Witness ==
    /\ call.op = "SetVolume"
    /\ call.argInt = 101
    /\ call.err = ErrVolumeRange
    /\ call.reqs = <<>>

GroupingOps == {"AddSlave", "RemoveSlave", "RemoveAllSlaves", "LeaveGroup"}

\* C7: on a SOAP session AddSlave, RemoveSlave, RemoveAllSlaves and
\* LeaveGroup return the not-supported error in every state and for every
\* argument, send no request, and leave the session, favorites cache
\* included, as it was.
C7_SonosGroupingUnsupported ==
    (call.op \in GroupingOps /\ call.pre.type = DeviceTypeSonos) =>
       /\ call.err = ErrSonosGrouping
       /\ call.reqs = <<>>
       /\ client = call.pre

C7_Witness ==
    /\ IsSonosCall("AddSlave")
    /\ call.argStr # ""
    /\ Len(call.pre.favorites) > 0
    /\ call.err = ErrSonosGrouping
    /\ client = call.pre

\* C8: when the GetTransportInfo request of a SOAP GetStatus fails, the
\* call returns the status "stopped" with empty song, artist and album and
\* volume 0, and no error.
C8_StoppedOnTransportFailure ==
    (IsSonosCall("GetStatus") /\ RequestFailed(call.reqs[1])) =>
       /\ call.err = ""
       /\ call.val.kind = "status"
       /\ call.val.status =
             [State |-> "stopped", Song |-> "", Artist |-> "", Album |-> "", Volume |-> 0]

C8_Witness ==
    /\ IsSonosCall("GetStatus")
    /\ call.reqs[1].target = "AVTransport#GetTransportInfo"
    /\ call.reqs[1].resp.err
    /\ call.val.status.State = "stopped"
    /\ call.err = ""

\* C9: whatever the outcomes of the transport-state, position-info and
\* volume requests (success, transport failure, non-200 status, malformed
\* body), a SOAP GetStatus returns a status and no error.
C9_StatusNeverFails ==
    IsSonosCall("GetStatus") =>
       /\ call.err = ""
       /\ call.val.kind = "status"

C9_Witness ==
    /\ IsSonosCall("GetStatus")
    /\ Len(call.reqs) = 3
    /\ ~RequestFailed(call.reqs[1])
    /\ ~RequestFailed(call.reqs[2])
    /\ RequestFailed(call.reqs[3])
    /\ call.val.status.State = "playing"
    /\ call.val.status.Song = "So What"
    /\ call.err = ""

\* The PlayPreset just made on a SOAP session named an entry whose name
\* begins with "[INFO]".
InfoEntryPlayed ==
    /\ IsSonosCall("PlayPreset")
    /\ \E i \in 1..Len(client.favorites) :
          /\ client.favorites[i].ID = call.argInt
          /\ HasPrefix(client.favorites[i].Name, "[INFO]")

PlaybackActions ==
    {"AVTransport#SetAVTransportURI", "AVTransport#RemoveAllTracksFromQueue",
     "AVTransport#SetPlayMode", "AVTransport#AddURIToQueue", "AVTransport#Seek",
     "AVTransport#Play"}

\* C10 as stated: in every state of a SOAP session, a freshly created one
\* included, PlayPreset of an "[INFO]" entry returns an error and sends no
\* HTTP request of any kind.
C10_Original ==
    InfoEntryPlayed => (call.err # "" /\ call.reqs = <<>>)

\* C10: in every state of a SOAP session PlayPreset of an "[INFO]" entry
\* returns an error and sends no playback request; it sends no request at
\* all when the favorites cache is already filled, and on an empty cache
\* only the Browse requests of the favorites load, one for each root.
C10_InfoEntryNotPlayed ==
    InfoEntryPlayed =>
       /\ call.err # ""
       /\ \A k \in 1..Len(call.reqs) : call.reqs[k].target \notin PlaybackActions
       /\ Len(call.pre.favorites) > 0 => call.reqs = <<>>
       /\ Len(call.pre.favorites) = 0 =>
             /\ Len(call.reqs) = Len(radioObjectIDs)
             /\ \A k \in 1..Len(call.reqs) :
                   /\ call.reqs[k].target = "ContentDirectory#Browse"
                   /\ call.reqs[k].arg = radioObjectIDs[k]

C10_Witness ==
    /\ InfoEntryPlayed
    /\ Len(call.pre.favorites) > 0
    /\ call.argInt = 1
    /\ call.err = ErrInfoEntry
    /\ call.reqs = <<>>

\* The Browse requests of one favorites load, one for each root in order.
IsFavoritesBrowse(reqs) ==
    /\ Len(reqs) = Len(radioObjectIDs)
    /\ \A k \in 1..Len(reqs) : /\ reqs[k].target = "ContentDirectory#Browse"
                               /\ reqs[k].arg = radioObjectIDs[k]

\* The PlayPreset just made named an id that no entry of the device's
\* preset list carries.
UnknownIdPlayed ==
    /\ call.op = "PlayPreset"
    /\ IF call.pre.type = DeviceTypeSonos
       THEN \A i \in 1..Len(client.favorites) : client.favorites[i].ID # call.argInt
       ELSE \A i \in 1..Len(DevicePresets) : DevicePresets[i].ID # call.argInt

\* C11 as stated: on both variants PlayPreset of an id that no entry of the
\* device's preset list carries is rejected with an error before any
\* request is sent.
C11_Original ==
    UnknownIdPlayed => (call.err # "" /\ call.reqs = <<>>)

\* C11: on a SOAP session PlayPreset of an id that no favorite carries
\* returns "favorite not found" and sends no playback request: no request
\* at all when the favorites cache is filled, only the Browse requests of
\* the favorites load when it is empty. On a REST session the id is not
\* checked by the client: one GET of /Preset?id=<id> is sent whatever the
\* id, and the call fails exactly when that request fails.
C11_UnknownPresetId ==
    /\ (UnknownIdPlayed /\ call.pre.type = DeviceTypeSonos) =>
          /\ call.err = ErrFavoriteNotFound
          /\ \A k \in 1..Len(call.reqs) : call.reqs[k].target \notin PlaybackActions
          /\ Len(call.pre.favorites) > 0 => call.reqs = <<>>
          /\ Len(call.pre.favorites) = 0 => IsFavoritesBrowse(call.reqs)
    /\ (call.op = "PlayPreset" /\ call.pre.type = DeviceTypeBluOS) =>
          /\ Len(call.reqs) = 1
          /\ call.reqs[1].via = "GET"
          /\ HasPrefix(call.reqs[1].target, "/Preset?id=")
          /\ Atoi(SubSeq(call.reqs[1].target, Len("/Preset?id=") + 1,
                         Len(call.reqs[1].target))) = [ok |-> TRUE, val |-> call.argInt]
          /\ (call.err # "") <=> RequestFailed(call.reqs[1])

C11_Witness ==
    /\ UnknownIdPlayed
    /\ call.pre.type = DeviceTypeSonos
    /\ Len(call.pre.favorites) > 0
    /\ ~HasPrefix(call.pre.favorites[1].Name, "[INFO]")
    /\ call.pre.favorites[1].URI # ""
    /\ call.err = ErrFavoriteNotFound
    /\ call.reqs = <<>>

\* The call just made on a SOAP session loaded the favorites through
\* GetPresets.
FavoritesLoaded ==
    /\ IsSonosCall("GetPresets")
    /\ Len(call.pre.favorites) = 0

\* The (name, URI) pairs of the radio-classified items the roots returned.
BrowsedRadioPairs ==
    UNION { { [Name |-> f[i].Name, URI |-> f[i].URI] : i \in {j \in 1..Len(f) : isRadioStation(f[j])} }
            : f \in { browseForRadioContent(call.reqs[k].resp) : k \in 1..Len(call.reqs) } }

ResolvedPairs ==
    { [Name |-> client.favorites[i].Name, URI |-> client.favorites[i].URI]
      : i \in 1..Len(client.favorites) }

\* C12: the resolved favorites hold exactly one entry for each distinct
\* (name, URI) pair among the radio-classified items of all browsed roots:
\* equal pairs collapse, and items that differ in name or in URI are both
\* kept.
C12_DedupByPair ==
    (FavoritesLoaded /\ BrowsedRadioPairs # {}) =>
       /\ ResolvedPairs = BrowsedRadioPairs
       /\ Len(client.favorites) = Cardinality(BrowsedRadioPairs)

\* C13: after any favorites load on a SOAP session, placeholder fallback
\* included, the cached list of N entries carries the ids 1..N in list
\* order, and GetPresets returns the entries with exactly those ids, names
\* and URIs in that order.
C13_ContiguousIds ==
    client.type = DeviceTypeSonos =>
       /\ \A i \in 1..Len(client.favorites) : client.favorites[i].ID = i
       /\ IsSonosCall("GetPresets") =>
             /\ call.err = ""
             /\ call.val.kind = "presets"
             /\ Len(call.val.presets) = Len(client.favorites)
             /\ \A i \in 1..Len(client.favorites) :
                   /\ call.val.presets[i].ID = i
                   /\ call.val.presets[i].Name = client.favorites[i].Name
                   /\ call.val.presets[i].URL = client.favorites[i].URI

C13_Witness ==
    /\ FavoritesLoaded
    /\ Len(client.favorites) >= 3
    /\ client.favorites[2].Name = "R&B Hits"
    /\ call.val.presets[2].ID = 2
    /\ call.val.presets[3].ID = 3

\* ------------------------------------------------------------------------
\* Favorites resolution over a range of browsed items
\* ------------------------------------------------------------------------

ClassifyNames ==
    {"Jazz FM", "My Song", "smooth fm", "Morning RADIO", "Dreams", "Top Hits", "LIVE Set",
     "News Stream"}
ClassifyURIs ==
    {"http://stream.example/radio", "https://s.example/a", "x-sonosapi-stream:s1",
     "x-file-cifs://server/track.mp3", "mms://s.example/a", "x-rincon-cpcontainer:1", ""}
ClassifyClasses ==
    {"", "<upnp:class>object.item.audioItem.audioBroadcast</upnp:class>",
     "<upnp:class>object.item.audioItem.musicTrack</upnp:class>"}

\* The text of an <item> with this title, resource and class.
BrowseItem(name, uri, class) ==
    "<dc:title>" \o name \o "</dc:title>"
    \o (IF uri = "" THEN "" ELSE "<res>" \o uri \o "</res>") \o class

ClassifyItems ==
    { BrowseItem(n, u, c) : n \in ClassifyNames, u \in ClassifyURIs, c \in ClassifyClasses }

LibraryTrack == BrowseItem("My Song", "x-file-cifs://server/track.mp3", "")

\* The first or the last root returns one item, alone or followed by a
\* library track; the Browse of every other root fails.
ClassifyOutcomes ==
    { [k \in 1..Len(radioObjectIDs) |->
         IF k = root THEN HttpResp(200, Envelope("", "", "", items))
         ELSE HttpFail("timeout", SoapNotXml)]
      : root \in {1, Len(radioObjectIDs)},
        items \in {<<x>> : x \in ClassifyItems} \cup {<<x, LibraryTrack>> : x \in ClassifyItems} }

\* The first favorites load of a SOAP session, through GetPresets.
ResolveFavorites ==
    /\ client.type = DeviceTypeSonos
    /\ Len(client.favorites) = 0
    /\ Invoke("GetPresets", 0, "",
              { Run(l.favorites, "", l.reqs, PresetsVal(PresetsOf(l.favorites)))
                : l \in {LoadFrom(resps) : resps \in ClassifyOutcomes} })

InitFavorites ==
    /\ ScanIdle
    /\ osNet = [err |-> FALSE, ifaces |-> <<>>]
    /\ ProbeIdle
    /\ client \in {NewSonosClient(ip) : ip \in ClientAddrs}
    /\ call = NoCall
    /\ TuiIdle

NextFavorites ==
    \/ ResolveFavorites
    \/ NextCommand

SpecFavorites == InitFavorites /\ [][NextFavorites]_vars

\* The items the roots returned to the load just made, as parsed.
BrowsedItems ==
    UNION { {f[i] : i \in 1..Len(f)}
            : f \in { browseForRadioContent(call.reqs[k].resp) : k \in 1..Len(call.reqs) } }

InResolved(f) ==
    \E i \in 1..Len(client.favorites) :
       /\ client.favorites[i].Name = f.Name
       /\ client.favorites[i].URI = f.URI
       /\ client.favorites[i].Meta = f.Meta

RadioKeywords == {"radio", "fm", "am", "stream", "live"}

HasKeyword(name) == \E kw \in RadioKeywords : Contains(ToLower(name), kw)

\* The conditions the claim lists for a radio item.
ListedRadio(f) ==
    \/ HasPrefix(f.URI, "http://")
    \/ HasPrefix(f.URI, "https://")
    \/ HasPrefix(f.URI, "x-sonosapi-stream:")
    \/ Contains(f.Meta, "audioBroadcast")
    \/ HasKeyword(f.Name)

\* No allowlisted scheme, no broadcast marker, no keyword in the name.
NoRadioMark(f) ==
    /\ \A p \in radioPatterns : ~HasPrefix(f.URI, p)
    /\ ~Contains(f.Meta, "object.item.audioItem.audioBroadcast")
    /\ ~Contains(f.Meta, "object.item.audioItem.radio")
    /\ ~Contains(f.Meta, "radioBroadcast")
    /\ ~HasKeyword(f.Name)

\* The browse of the example: "Jazz FM" over http and the library track.
ExampleBrowsed ==
    /\ FavoritesLoaded
    /\ \E k \in 1..Len(call.reqs) :
          /\ ~call.reqs[k].resp.err
          /\ call.reqs[k].resp.body.items =
                <<BrowseItem("Jazz FM", "http://stream.example/radio", ""), LibraryTrack>>

C15_PlaceholderFallback ==
    IsSonosCall("GetPresets") =>
       /\ call.err = ""
       /\ Len(call.val.presets) > 0
       /\ (FavoritesLoaded /\ BrowsedRadioPairs = {}) =>
             /\ Len(client.favorites) = 2
             /\ Len(call.val.presets) = 2
             /\ \A i \in 1..2 : /\ call.val.presets[i].ID = i
                                /\ HasPrefix(call.val.presets[i].Name, "[INFO]")
                                /\ call.val.presets[i].URL = ""
                                /\ client.favorites[i].ID = i
                                /\ HasPrefix(client.favorites[i].Name, "[INFO]")
                                /\ client.favorites[i].URI = ""

C15_Witness ==
    /\ FavoritesLoaded
    /\ BrowsedRadioPairs = {}
    /\ \E k \in 1..Len(call.reqs) : Len(browseForRadioContent(call.reqs[k].resp)) > 0
    /\ \E k \in 1..Len(call.reqs) : RequestFailed(call.reqs[k])
    /\ Len(call.val.presets) = 2
    /\ call.err = ""

BrowseSent ==
    \E k \in 1..Len(call.reqs) : call.reqs[k].target = "ContentDirectory#Browse"

\* C16: favorites resolution on a SOAP session is lazy and cached. A new
\* session has an empty cache and has sent nothing; the first GetPresets
\* or PlayPreset on an empty cache begins with the Browse of every root
\* and fills the cache; on a filled cache GetPresets and PlayPreset send no
\* Browse request, leave the cache as it is, and GetPresets returns it.
C16_LazyCachedFavorites ==
    /\ \A ip \in ClientAddrs : NewSonosClient(ip).favorites = <<>>
    /\ (IsSonosCall("GetPresets") \/ IsSonosCall("PlayPreset")) =>
          /\ Len(call.pre.favorites) = 0 =>
                /\ Len(call.reqs) >= Len(radioObjectIDs)
                /\ IsFavoritesBrowse(SubSeq(call.reqs, 1, Len(radioObjectIDs)))
                /\ Len(client.favorites) > 0
          /\ Len(call.pre.favorites) > 0 =>
                /\ ~BrowseSent
                /\ client.favorites = call.pre.favorites
                /\ call.op = "GetPresets" =>
                      /\ call.reqs = <<>>
                      /\ Len(call.val.presets) = Len(call.pre.favorites)
                      /\ \A i \in 1..Len(call.pre.favorites) :
                            /\ call.val.presets[i].ID = call.pre.favorites[i].ID
                            /\ call.val.presets[i].Name = call.pre.favorites[i].Name
                            /\ call.val.presets[i].URL = call.pre.favorites[i].URI

C16_Witness ==
    /\ IsSonosCall("GetPresets")
    /\ Len(call.pre.favorites) >= 3
    /\ call.reqs = <<>>
    /\ Len(call.val.presets) = Len(call.pre.favorites)
    /\ call.val.presets[1].Name = "Jazz FM"

\* ------------------------------------------------------------------------
\* The REST variant sends one GET per call
\* ------------------------------------------------------------------------

RestOperations ==
    {"GetPresets", "GetStatus", "PlayPreset", "Play", "Pause", "Stop", "SetVolume",
     "Next", "Previous", "AddSlave", "RemoveSlave", "RemoveAllSlaves", "LeaveGroup"}

\* A call of one of the REST client's operations, SetVolume in range.
IsRestCall ==
    /\ call.op \in RestOperations
    /\ call.pre.type = DeviceTypeBluOS
    /\ call.op = "SetVolume" => call.argInt \in 0..100

\* C20: every operation of the REST client (SetVolume with a level in
\* 0..100) sends exactly one HTTP GET per call; when that request fails
\* (transport error, status other than 200, unreadable body) the call returns
\* the request's error and nothing is sent again.
C20_OneGetPerCall ==
    IsRestCall =>
       /\ Len(call.reqs) = 1
       /\ call.reqs[1].via = "GET"
       /\ RequestFailed(call.reqs[1]) =>
             /\ call.err # ""
             /\ call.err = makeRequest(call.reqs[1].resp).err

C20_Witness ==
    /\ IsRestCall
    /\ call.op = "Pause"
    /\ call.reqs = <<Get("/Pause", HttpResp(500, RestNotXml))>>
    /\ call.err = "API returned status 500"

\* ------------------------------------------------------------------------
\* The interactive session (main.go)
\* ------------------------------------------------------------------------

\* strings.Split
RECURSIVE SplitFrom(_, _, _)
SplitFrom(s, sep, cur) ==
    IF Len(s) = 0 THEN <<cur>>
    ELSE IF HasPrefix(s, sep)
         THEN <<cur>> \o SplitFrom(SubSeq(s, Len(sep) + 1, Len(s)), sep, "")
    ELSE SplitFrom(SubSeq(s, 2, Len(s)), sep, cur \o SubSeq(s, 1, 1))
Split(s, sep) == SplitFrom(s, sep, "")

\* The devices a scan has found, in the orders it has listed them.
Node ==
    [IP |-> "192.168.1.10", Name |-> "Node", Brand |-> "Bluesound", Model |-> "NODE",
     Type |-> DeviceTypeBluOS]
Flex ==
    [IP |-> "192.168.1.11", Name |-> "Flex", Brand |-> "Bluesound", Model |-> "PULSE FLEX",
     Type |-> DeviceTypeBluOS]
SonosOne ==
    [IP |-> "192.168.1.12", Name |-> "Sonos One", Brand |-> "Sonos", Model |-> "One",
     Type |-> DeviceTypeSonos]
PlayerLists == { <<Node, Flex, SonosOne>>, <<SonosOne, Node>>, <<Flex>> }

\* The address a client is bound to, read back from its base URL.
ClientAddr(cl) == Split(Split(cl.baseURL, "://")[2], ":")[1]

\* What the devices of the session answer: a request times out or is
\* answered with status 200 and a readable body; the SOAP device is playing a
\* track at volume 35 and says so when it answers; of its content roots only
\* the first two hold items.
SessionAnswer(req) ==
    LET answered == ~req.resp.err /\ req.resp.status = 200 /\ ~req.resp.readErr
    IN  CASE /\ req.target = "ContentDirectory#Browse"
             /\ \E k \in 1..Len(radioObjectIDs) : req.arg = radioObjectIDs[k] ->
               (answered /\ req.resp.body.xml) =>
                  req.arg \in {radioObjectIDs[1], radioObjectIDs[2]}
          [] req.target = "AVTransport#GetTransportInfo" ->
               req.resp.err \/ req.resp = HttpResp(200, Envelope("PLAYING", "", "", <<>>))
          [] req.target = "AVTransport#GetPositionInfo" ->
               req.resp = HttpResp(200, Envelope("", TrackMeta, "", <<>>))
          [] req.target = "RenderingControl#GetVolume" ->
               req.resp.err \/ req.resp = HttpResp(200, Envelope("", "", "35", <<>>))
          [] OTHER -> req.resp.err \/ answered
Session(runs) == { r \in runs : \A k \in 1..Len(r.reqs) : SessionAnswer(r.reqs[k]) }

\* The AudioClient methods, dispatched on the client's type.
GetStatusOf(cl) ==
    Session(IF cl.type = DeviceTypeBluOS THEN BluesoundGetStatus(cl) ELSE SonosGetStatus(cl))
GetPresetsOf(cl) ==
    Session(IF cl.type = DeviceTypeBluOS THEN BluesoundGetPresets(cl) ELSE SonosGetPresets(cl))
PlayPresetOf(cl, id) ==
    Session(IF cl.type = DeviceTypeBluOS THEN BluesoundPlayPreset(cl, id)
            ELSE SonosPlayPreset(cl, id))
PlayOf(cl) == Session(IF cl.type = DeviceTypeBluOS THEN BluesoundPlay(cl) ELSE SonosPlay(cl))
PauseOf(cl) == Session(IF cl.type = DeviceTypeBluOS THEN BluesoundPause(cl) ELSE SonosPause(cl))
StopOf(cl) == Session(IF cl.type = DeviceTypeBluOS THEN BluesoundStop(cl) ELSE SonosStop(cl))
NextOf(cl) == Session(IF cl.type = DeviceTypeBluOS THEN BluesoundNext(cl) ELSE SonosNext(cl))
PreviousOf(cl) ==
    Session(IF cl.type = DeviceTypeBluOS THEN BluesoundPrevious(cl) ELSE SonosPrevious(cl))
SetVolumeOf(cl, level) ==
    Session(IF cl.type = DeviceTypeBluOS THEN BluesoundSetVolume(cl, level)
            ELSE SonosSetVolume(cl, level))
DebugAPIOf(cl) ==
    Session(IF cl.type = DeviceTypeBluOS THEN BluesoundDebugAPI(cl) ELSE SonosDebugAPI(cl))

\* Where a command has got to: the client and the TUIState fields it has
\* set, its lastAction, the requests sent so far, each with the base URL of
\* the client that sent it.
Sent(cl, reqs) == [k \in 1..Len(reqs) |-> [base |-> cl.baseURL, rq |-> reqs[k]]]
After1(o, r, text) ==
    [o EXCEPT !.client.favorites = r.favorites,
              !.lastAction = text,
              !.reqs = @ \o Sent(o.client, r.reqs)]

updateStatus(o) ==
    { IF r.err # ""
      THEN [After1(o, r, o.lastAction) EXCEPT !.ts.statusError = "error_retrieving_status",
                                              !.ts.status = [nil |-> TRUE, st |-> NoStatus]]
      ELSE [After1(o, r, o.lastAction) EXCEPT !.ts.status = [nil |-> FALSE, st |-> r.val.status],
                                              !.ts.statusError = ""]
      : r \in GetStatusOf(o.client) }

updatePresets(o) ==
    { IF r.err # ""
      THEN [After1(o, r, o.lastAction) EXCEPT !.ts.presetsError = "error_loading_presets",
                                              !.ts.presets = <<>>]
      ELSE [After1(o, r, o.lastAction) EXCEPT !.ts.presets = r.val.presets,
                                              !.ts.presetsError = ""]
      : r \in GetPresetsOf(o.client) }

\* A command that is one client call, followed by updateStatus when the call
\* succeeded.
Transport(o, runs, failed, done) ==
    UNION { IF r.err # "" THEN {After1(o, r, failed)} ELSE updateStatus(After1(o, r, done))
            : r \in runs }

Reject(o, text) == {[o EXCEPT !.lastAction = text]}

\* A session that builds a REST client for whatever device is selected.
switchToPlayerAsBluOS(o, playerID) ==
    IF playerID < 1 \/ playerID > Len(o.ts.availablePlayers)
    THEN Reject(o, "invalid_player_id")
    ELSE LET selectedPlayer == o.ts.availablePlayers[playerID]
         IN  UNION { updatePresets(u) :
                     u \in updateStatus([o EXCEPT !.client = NewBluesoundClient(selectedPlayer.IP),
                                                  !.ts.playerName = selectedPlayer.Name,
                                                  !.lastAction = "switched_to_player"]) }

\* A switch that keeps the client when the device chosen is the active one.
switchToPlayerReusingClient(o, playerID) ==
    IF playerID < 1 \/ playerID > Len(o.ts.availablePlayers)
    THEN Reject(o, "invalid_player_id")
    ELSE LET selectedPlayer == o.ts.availablePlayers[playerID]
         IN  UNION { updatePresets(u) :
                     u \in updateStatus(
                             [o EXCEPT !.client =
                                          IF ClientAddr(o.client) = selectedPlayer.IP
                                          THEN o.client
                                          ELSE IF selectedPlayer.Type = DeviceTypeBluOS
                                          THEN NewBluesoundClient(selectedPlayer.IP)
                                          ELSE NewSonosClient(selectedPlayer.IP),
                                       !.ts.playerName = selectedPlayer.Name,
                                       !.lastAction = "switched_to_player"]) }

\* A switch that moves the device chosen to the head of the list.
switchToPlayerPromoting(o, playerID) ==
    IF playerID < 1 \/ playerID > Len(o.ts.availablePlayers)
    THEN Reject(o, "invalid_player_id")
    ELSE LET selectedPlayer == o.ts.availablePlayers[playerID]
         IN  UNION { updatePresets(u) :
                     u \in updateStatus(
                             [o EXCEPT !.client =
                                          IF selectedPlayer.Type = DeviceTypeBluOS
                                          THEN NewBluesoundClient(selectedPlayer.IP)
                                          ELSE NewSonosClient(selectedPlayer.IP),
                                       !.ts.playerName = selectedPlayer.Name,
                                       !.ts.availablePlayers =
                                          <<selectedPlayer>>
                                          \o SelectSeq(@, LAMBDA p : p # selectedPlayer),
                                       !.lastAction = "switched_to_player"]) }

switchToPlayer(o, playerID) ==
    IF playerID < 1 \/ playerID > Len(o.ts.availablePlayers)
    THEN Reject(o, "invalid_player_id")
    ELSE LET selectedPlayer == o.ts.availablePlayers[playerID]
         IN  IF selectedPlayer.Type \notin {DeviceTypeBluOS, DeviceTypeSonos}
             THEN Reject(o, "error_switching_player")
             ELSE UNION { updatePresets(u) :
                          u \in updateStatus(
                                  [o EXCEPT !.client =
                                               IF selectedPlayer.Type = DeviceTypeBluOS
                                               THEN NewBluesoundClient(selectedPlayer.IP)
                                               ELSE NewSonosClient(selectedPlayer.IP),
                                            !.ts.playerName = selectedPlayer.Name,
                                            !.lastAction = "switched_to_player"]) }

\* A grouping that goes back to the session it came from when AddSlave
\* fails.
addSlaveToMasterRollingBack(o, masterPlayer, slavePlayer) ==
    LET m == [o EXCEPT !.client = NewBluesoundClient(masterPlayer.IP),
                       !.ts.playerName = masterPlayer.Name]
    IN  { IF x.lastAction = "error_grouping"
          THEN [x EXCEPT !.client = o.client, !.ts.playerName = o.ts.playerName]
          ELSE x
          : x \in Transport(m, Session(BluesoundAddSlave(m.client, slavePlayer.IP)),
                            "error_grouping", "grouped_players") }

\* groupPlayers from "Switch to master player" on: the master's client
\* becomes the active one, then adds the slave.
addSlaveToMaster(o, masterPlayer, slavePlayer) ==
    LET m == [o EXCEPT !.client = NewBluesoundClient(masterPlayer.IP),
                       !.ts.playerName = masterPlayer.Name]
    IN  Transport(m, Session(BluesoundAddSlave(m.client, slavePlayer.IP)),
                  "error_grouping", "grouped_players")

ErrGroupingFamily == "Grouping only supported for BluOS devices"

\* A session that lets a device be grouped with itself.
groupPlayersWithSelf(o, groupSpec) ==
    LET parts == Split(groupSpec, "+")
        n == Len(o.ts.availablePlayers)
    IN  IF Len(parts) # 2 THEN Reject(o, "invalid_group_format")
        ELSE LET masterID == Atoi(parts[1])
                 slaveID == Atoi(parts[2])
             IN  IF \/ ~masterID.ok \/ ~slaveID.ok \/ masterID.val < 1 \/ slaveID.val < 1
                    \/ masterID.val > n \/ slaveID.val > n
                 THEN Reject(o, "invalid_group_format")
                 ELSE LET masterPlayer == o.ts.availablePlayers[masterID.val]
                          slavePlayer == o.ts.availablePlayers[slaveID.val]
                      IN  IF \/ masterPlayer.Type # DeviceTypeBluOS
                             \/ slavePlayer.Type # DeviceTypeBluOS
                          THEN Reject(o, ErrGroupingFamily)
                          ELSE addSlaveToMaster(o, masterPlayer, slavePlayer)

groupPlayers(o, groupSpec) ==
    LET parts == Split(groupSpec, "+")
        n == Len(o.ts.availablePlayers)
    IN  IF Len(parts) # 2 THEN Reject(o, "invalid_group_format")
        ELSE LET masterID == Atoi(parts[1])
                 slaveID == Atoi(parts[2])
             IN  IF \/ ~masterID.ok \/ ~slaveID.ok \/ masterID.val < 1 \/ slaveID.val < 1
                    \/ masterID.val > n \/ slaveID.val > n
                 THEN Reject(o, "invalid_group_format")
                 ELSE IF masterID.val = slaveID.val THEN Reject(o, "invalid_group_format")
                 ELSE LET masterPlayer == o.ts.availablePlayers[masterID.val]
                          slavePlayer == o.ts.availablePlayers[slaveID.val]
                      IN  IF \/ masterPlayer.Type # DeviceTypeBluOS
                             \/ slavePlayer.Type # DeviceTypeBluOS
                          THEN Reject(o, ErrGroupingFamily)
                          ELSE addSlaveToMaster(o, masterPlayer, slavePlayer)

debugAPI(o) == { After1(o, r, "debug report") : r \in DebugAPIOf(o.client) }

\* ungroupAll: what its two loops send, and how many requests succeeded.
UngroupResponses == { HttpFail("timeout", RestNotXml), HttpResp(200, RestNotXml) }
Succeeded(resp) == IF makeRequest(resp).err = "" THEN 1 ELSE 0
standaloneMethods == <<"/Standalone", "/Reset", "/ClearSlaves">>
ErrUngroupingFamily == "Ungrouping only supported for BluOS devices"

RECURSIVE removeSlaves(_, _, _, _)
removeSlaves(cl, playerName, ps, k) ==
    IF k > Len(ps) THEN {[reqs |-> <<>>, successCount |-> 0]}
    ELSE LET player == ps[k]
             rest == removeSlaves(cl, playerName, ps, k + 1)
         IN  IF player.Name # playerName /\ player.Type = DeviceTypeBluOS
             THEN LET otherClient == NewBluesoundClient(player.IP)
                      currentPlayerIP == Split(Split(cl.baseURL, "://")[2], ":")[1]
                  IN  { [reqs |-> Sent(cl, <<Get("/RemoveSlave?slave=" \o player.IP, a)>>)
                                  \o Sent(otherClient,
                                          <<Get("/RemoveSlave?slave=" \o currentPlayerIP, b)>>)
                                  \o t.reqs,
                         successCount |-> Succeeded(a) + Succeeded(b) + t.successCount]
                        : a \in UngroupResponses, b \in UngroupResponses, t \in rest }
             ELSE rest

\* A reset loop without the break: every method is tried.
RECURSIVE tryStandaloneExhaustive(_, _)
tryStandaloneExhaustive(cl, j) ==
    IF j > Len(standaloneMethods) THEN {[reqs |-> <<>>, successCount |-> 0]}
    ELSE { [reqs |-> Sent(cl, <<Get(standaloneMethods[j], a)>>) \o t.reqs,
            successCount |-> Succeeded(a) + t.successCount]
           : a \in UngroupResponses, t \in tryStandaloneExhaustive(cl, j + 1) }

RECURSIVE tryStandalone(_, _)
tryStandalone(cl, j) ==
    IF j > Len(standaloneMethods) THEN {[reqs |-> <<>>, successCount |-> 0]}
    ELSE UNION { IF Succeeded(a) = 1
                 THEN {[reqs |-> Sent(cl, <<Get(standaloneMethods[j], a)>>), successCount |-> 1]}
                 ELSE { [t EXCEPT !.reqs = Sent(cl, <<Get(standaloneMethods[j], a)>>) \o @]
                        : t \in tryStandalone(cl, j + 1) }
                 : a \in UngroupResponses }

RECURSIVE standaloneAll(_, _)
standaloneAll(ps, k) ==
    IF k > Len(ps) THEN {[reqs |-> <<>>, successCount |-> 0]}
    ELSE IF ps[k].Type = DeviceTypeBluOS
         THEN { [reqs |-> h.reqs \o t.reqs, successCount |-> h.successCount + t.successCount]
                : h \in tryStandalone(NewBluesoundClient(ps[k].IP), 1),
                  t \in standaloneAll(ps, k + 1) }
    ELSE standaloneAll(ps, k + 1)

ungroupAll(o) ==
    IF o.client.type # DeviceTypeBluOS THEN Reject(o, ErrUngroupingFamily)
    ELSE UNION { updateStatus([o EXCEPT !.reqs = @ \o a.reqs \o b.reqs,
                                        !.lastAction =
                                           IF a.successCount + b.successCount > 0
                                           THEN "ungrouped_all" ELSE "error_ungrouping"])
                 : a \in removeSlaves(o.client, o.ts.playerName, o.ts.availablePlayers, 1),
                   b \in standaloneAll(o.ts.availablePlayers, 1) }

\* The words typed after play, vol, output and group ("" for none)
PlayArgs == {"", "2", "9", "x"}
VolArgs == {"", "35", "101", "loud"}
OutputArgs == {"", "0", "1", "2", "3", "4", "x"}
GroupArgs ==
    {"", "1+2", "2+1", "1+1", "0+1", "1+4", "1", "1+2+3", "a+1", "1+", "1+3", "01+2", "-1+2"}

\* The session as a command finds it
Here == [client |-> client, ts |-> tuiState, lastAction |-> "", reqs |-> <<>>]

\* One pass of the loop of interactiveMode: the command is read, handled,
\* and leaves the session as one of outs.
Command(name, arg, outs) ==
    /\ cmd = NoCmd
    /\ \E o \in outs :
          /\ client' = o.client
          /\ tuiState' = o.ts
          /\ cmd' = [name |-> name, arg |-> arg, preClient |-> client, preState |-> tuiState,
                     lastAction |-> o.lastAction, reqs |-> o.reqs]
    /\ UNCHANGED nonTuiVars

\* interactiveMode, "Initial data load"
InitialLoad ==
    /\ cmd.name = "main"
    /\ \E o \in UNION { updatePresets(u) : u \in updateStatus(Here) } :
          /\ client' = o.client
          /\ tuiState' = o.ts
          /\ cmd' = [name |-> "interactiveMode", arg |-> "", preClient |-> client,
                     preState |-> tuiState, lastAction |-> "", reqs |-> o.reqs]
    /\ UNCHANGED nonTuiVars

PlayCommand ==
    \E arg \in PlayArgs :
       Command("play", arg,
               IF arg # ""
               THEN LET presetID == Atoi(arg)
                    IN  IF ~presetID.ok THEN Reject(Here, "invalid_preset_id")
                        ELSE UNION { IF r.err # ""
                                     THEN {After1(Here, r, "error_playing_preset: " \o r.err)}
                                     ELSE updateStatus(After1(Here, r, "playing_preset"))
                                     : r \in PlayPresetOf(client, presetID.val) }
               ELSE Transport(Here, PlayOf(client), "error_starting_playback",
                              "playback_started"))

PauseCommand == Command("pause", "", Transport(Here, PauseOf(client), "error_pausing", "paused"))

StopCommand == Command("stop", "", Transport(Here, StopOf(client), "error_stopping", "stopped"))

NextTrackCommand ==
    Command("next", "", Transport(Here, NextOf(client), "error_next_track", "next_track"))

PrevCommand ==
    Command("prev", "", Transport(Here, PreviousOf(client), "error_prev_track", "prev_track"))

VolCommand ==
    \E arg \in VolArgs :
       Command("vol", arg,
               IF arg = "" THEN Reject(Here, "volume_missing")
               ELSE LET volume == Atoi(arg)
                    IN  IF ~volume.ok THEN Reject(Here, "invalid_volume")
                        ELSE Transport(Here, SetVolumeOf(client, volume.val),
                                       "error_setting_volume", "volume_set"))

StatusCommand ==
    Command("status", "", { [u EXCEPT !.lastAction = "Status refreshed"]
                            : u \in updateStatus(Here) })

PresetsCommand ==
    Command("presets", "", { [u EXCEPT !.lastAction = "Presets/Favorites refreshed"]
                             : u \in updatePresets(Here) })

HelpCommand == Command("help", "", Reject(Here, "Help displayed above"))

OutputCommand ==
    \E arg \in OutputArgs :
       Command("output", arg,
               IF arg = "" THEN Reject(Here, "invalid_player_id")
               ELSE LET playerID == Atoi(arg)
                    IN  IF ~playerID.ok THEN Reject(Here, "invalid_player_id")
                        ELSE switchToPlayer(Here, playerID.val))

GroupCommand ==
    \E arg \in GroupArgs :
       Command("group", arg,
               IF arg = "" THEN Reject(Here, "invalid_group_format")
               ELSE groupPlayers(Here, arg))

UngroupCommand == Command("ungroup", "", ungroupAll(Here))

DebugCommand == Command("debug", "", debugAPI(Here))

\* changeLanguage: the language is one of the three known by a name, or the
\* word is refused.
LangArgs == {"", "de", "Deutsch", "fr"}
changeLanguage(o, lang) ==
    IF ToLower(lang) \in {"en", "english"} THEN Reject(o, "language_changed English")
    ELSE IF ToLower(lang) \in {"de", "german", "deutsch"}
    THEN Reject(o, "language_changed Deutsch")
    ELSE IF ToLower(lang) \in {"sw", "swahili", "kiswahili"}
    THEN Reject(o, "language_changed Kiswahili")
    ELSE Reject(o, "invalid_language")

LangCommand ==
    \E arg \in LangArgs :
       Command("lang", arg,
               IF arg = "" THEN Reject(Here, "invalid_language")
               ELSE changeLanguage(Here, arg))

\* The screen is drawn and the next line is read.
Prompt ==
    /\ cmd.name \notin {"", "main"}
    /\ cmd' = NoCmd
    /\ UNCHANGED <<client, tuiState, nonTuiVars>>

\* main after selectPlayer: the client of the chosen device, its name, the
\* scan's list.
InitTUI ==
    /\ ScanIdle
    /\ osNet = [err |-> FALSE, ifaces |-> <<>>]
    /\ ProbeIdle
    /\ call = NoCall
    /\ \E ps \in PlayerLists : \E choice \in 1..Len(ps) :
          /\ client = IF ps[choice].Type = DeviceTypeBluOS
                      THEN NewBluesoundClient(ps[choice].IP)
                      ELSE NewSonosClient(ps[choice].IP)
          /\ tuiState = [NoTui EXCEPT !.playerName = ps[choice].Name,
                                      !.availablePlayers = ps]
    /\ cmd = [NoCmd EXCEPT !.name = "main"]

NextTUI ==
    \/ InitialLoad
    \/ PlayCommand
    \/ PauseCommand
    \/ StopCommand
    \/ NextTrackCommand
    \/ PrevCommand
    \/ VolCommand
    \/ StatusCommand
    \/ PresetsCommand
    \/ HelpCommand
    \/ OutputCommand
    \/ GroupCommand
    \/ UngroupCommand
    \/ DebugCommand
    \/ LangCommand
    \/ Prompt

SpecTUI == InitTUI /\ [][NextTUI]_vars

\* ------------------------------------------------------------------------
\* Properties of the interactive session
\* ------------------------------------------------------------------------

\* The requests the command sent, without their senders
CmdReqs == [k \in 1..Len(cmd.reqs) |-> cmd.reqs[k].rq]

\* The "presets" command was given on a SOAP session whose favorites were
\* already cached.
RefreshOnCachedFavorites ==
    /\ cmd.name = "presets"
    /\ cmd.preClient.type = DeviceTypeSonos
    /\ Len(cmd.preClient.favorites) > 0

\* C17: the "presets" command on a SOAP session invalidates the favorites
\* cache: the content hierarchy is browsed again, and the presets shown
\* afterwards are the favorites that Browse found, not the cached list.
C17_RefreshInvalidatesCache ==
    RefreshOnCachedFavorites =>
       /\ IsFavoritesBrowse(CmdReqs)
       /\ tuiState.presets = PresetsOf(LoadFrom([k \in 1..Len(CmdReqs) |-> CmdReqs[k].resp]).favorites)

\* The discovered devices the client's address belongs to
BoundTo(cl, ps) == {i \in 1..Len(ps) : ps[i].IP = ClientAddr(cl)}

\* The client main and switchToPlayer build for a discovered device
ClientFor(player) ==
    IF player.Type = DeviceTypeBluOS THEN NewBluesoundClient(player.IP)
    ELSE NewSonosClient(player.IP)

SameDevice(a, b) == a.type = b.type /\ a.baseURL = b.baseURL

\* C18: throughout the interactive session the active client is bound to a
\* discovered device and is of that device's discovered family; a command
\* other than output and group leaves the client's address and family as
\* they were; a successful output switch leaves the client of the selected
\* device, of its discovered family, and a group command that changes the
\* client leaves the REST client of the master it names, a REST device.
C18_ClientFamily ==
    LET ps == tuiState.availablePlayers
    IN  cmd.name # "" =>
           /\ BoundTo(client, ps) # {}
           /\ \A i \in BoundTo(client, ps) : SameDevice(client, ClientFor(ps[i]))
           /\ cmd.name \notin {"main", "output", "group"} => SameDevice(client, cmd.preClient)
           /\ (cmd.name = "output" /\ cmd.lastAction = "switched_to_player") =>
                 /\ Atoi(cmd.arg).ok
                 /\ Atoi(cmd.arg).val \in 1..Len(ps)
                 /\ SameDevice(client, ClientFor(ps[Atoi(cmd.arg).val]))
           /\ (cmd.name = "output" /\ cmd.lastAction # "switched_to_player") =>
                 client = cmd.preClient
           /\ (cmd.name = "group" /\ ~SameDevice(client, cmd.preClient)) =>
                 \E m \in 1..Len(ps) :
                    /\ Atoi(Split(cmd.arg, "+")[1]) = [ok |-> TRUE, val |-> m]
                    /\ ps[m].Type = DeviceTypeBluOS
                    /\ SameDevice(client, ClientFor(ps[m]))

C18_Witness ==
    /\ cmd.name = "output"
    /\ cmd.arg = "3"
    /\ cmd.lastAction = "switched_to_player"
    /\ cmd.preClient.type = DeviceTypeBluOS
    /\ SameDevice(client, NewSonosClient(SonosOne.IP))
    /\ tuiState.playerName = SonosOne.Name

\* Where the "+" signs of a group specification are
PlusSigns(groupSpec) == {i \in 1..Len(groupSpec) : SubSeq(groupSpec, i, i) = "+"}

\* The two ordinals of a group specification: integers, one on each side of
\* its only "+"
Ordinals(groupSpec) ==
    IF Cardinality(PlusSigns(groupSpec)) # 1 THEN [ok |-> FALSE, master |-> 0, slave |-> 0]
    ELSE LET i == CHOOSE x \in PlusSigns(groupSpec) : TRUE
             master == Atoi(SubSeq(groupSpec, 1, i - 1))
             slave == Atoi(SubSeq(groupSpec, i + 1, Len(groupSpec)))
         IN  [ok |-> master.ok /\ slave.ok, master |-> master.val, slave |-> slave.val]

\* The group specification is one groupPlayers is to carry out.
Groupable(groupSpec, ps) ==
    LET o == Ordinals(groupSpec)
    IN  /\ o.ok
        /\ o.master \in 1..Len(ps)
        /\ o.slave \in 1..Len(ps)
        /\ o.master # o.slave
        /\ ps[o.master].Type = DeviceTypeBluOS
        /\ ps[o.slave].Type = DeviceTypeBluOS

AddSlaveReqs == {k \in 1..Len(cmd.reqs) : HasPrefix(cmd.reqs[k].rq.target, "/AddSlave")}

\* C19: a group specification that is malformed, has an ordinal below 1 or
\* above the number of discovered devices, names one ordinal twice or names
\* a device that is not of the REST family is rejected: no request is sent,
\* the active client and the player name stay as they were. For every other
\* specification exactly one AddSlave request is sent: a GET to the master's
\* address, with the slave's address as parameter.
C19_GroupValidation ==
    cmd.name = "group" =>
       LET ps == tuiState.availablePlayers
           o == Ordinals(cmd.arg)
       IN  /\ ~Groupable(cmd.arg, ps) =>
                 /\ cmd.reqs = <<>>
                 /\ client = cmd.preClient
                 /\ tuiState = cmd.preState
                 /\ cmd.lastAction \in {"invalid_group_format", ErrGroupingFamily}
           /\ Groupable(cmd.arg, ps) =>
                 /\ Cardinality(AddSlaveReqs) = 1
                 /\ cmd.reqs[1].base = "http://" \o ps[o.master].IP \o ":" \o BluesoundPort
                 /\ cmd.reqs[1].rq.via = "GET"
                 /\ cmd.reqs[1].rq.target = "/AddSlave?slave=" \o ps[o.slave].IP

C19_Witness ==
    /\ cmd.name = "group"
    /\ cmd.arg = "1+1"
    /\ Len(tuiState.availablePlayers) = 3
    /\ cmd.lastAction = "invalid_group_format"
    /\ cmd.reqs = <<>>
    /\ client = cmd.preClient

\* ------------------------------------------------------------------------
\* REST GetPresets and GetStatus: result, transport failure, parse failure
\* ------------------------------------------------------------------------

IsRestQuery ==
    /\ call.op \in {"GetPresets", "GetStatus"}
    /\ call.pre.type = DeviceTypeBluOS

\* The root element the query's document must have
QueryRoot == IF call.op = "GetPresets" THEN "presets" ELSE "status"

ErrParse == IF call.op = "GetPresets" THEN "failed to parse presets XML"
            ELSE "failed to parse status XML"

\* The errors makeRequest gives: the request failed, the status was not 200
\* (the error carries it), the body could not be read.
TransportErrors ==
    {"request failed", "failed to read response"}
    \cup {"API returned status " \o ToString(r.status) : r \in RestResponses}

\* C21: a REST GetPresets or GetStatus ends in exactly one of three ways. A
\* failed request (transport error, status other than 200, unreadable body)
\* gives makeRequest's error; an answered request whose body is not the
\* expected document gives the parse error, which is none of makeRequest's
\* errors; otherwise the call gives the document's content and no error. A
\* value is never returned together with an error.
C21_RestQueryOutcome ==
    IsRestQuery =>
       LET req == call.reqs[1]
           body == req.resp.body
           wellFormed == body.xml /\ body.root = QueryRoot
       IN  /\ call.err # "" => call.val = NoVal
           /\ RequestFailed(req) => call.err \in TransportErrors
           /\ (~RequestFailed(req) /\ ~wellFormed) => call.err = ErrParse
           /\ (~RequestFailed(req) /\ wellFormed) =>
                 /\ call.err = ""
                 /\ call.val = IF call.op = "GetPresets" THEN PresetsVal(body.presets)
                               ELSE StatusVal(body.status)
           /\ ErrParse \notin TransportErrors
           /\ ErrParse # ""

C21_Witness ==
    /\ IsRestQuery
    /\ call.op = "GetStatus"
    /\ call.reqs = <<Get("/Status", HttpResp(200, RestNotXml))>>
    /\ call.err = "failed to parse status XML"
    /\ call.val = NoVal

\* ------------------------------------------------------------------------
\* SOAP GetStatus: the three sub-requests
\* ------------------------------------------------------------------------

StatusRequestOrder ==
    <<"AVTransport#GetTransportInfo", "AVTransport#GetPositionInfo",
      "RenderingControl#GetVolume">>

\* The request was answered and its answer unmarshalled.
Obtained(req) ==
    /\ makeSoapRequest(req.resp).err = ""
    /\ ~UnmarshalEnvelopeFails(req.resp.body)

\* C22: a SOAP GetStatus sends GetTransportInfo, then GetPositionInfo, then
\* GetVolume: its requests are the first one, two or three of that list, in
\* that order, each once, each sent only after the one before it was
\* answered, and it sends nothing else.
C22_StatusRequestOrder ==
    IsSonosCall("GetStatus") =>
       /\ Len(call.reqs) \in 1..Len(StatusRequestOrder)
       /\ \A k \in 1..Len(call.reqs) :
             /\ call.reqs[k].via = "SOAP"
             /\ call.reqs[k].target = StatusRequestOrder[k]
             /\ k > 1 => Obtained(call.reqs[k - 1])

C22_Witness ==
    /\ IsSonosCall("GetStatus")
    /\ Len(call.reqs) = 3
    /\ call.reqs[1].target = "AVTransport#GetTransportInfo"
    /\ call.reqs[2].target = "AVTransport#GetPositionInfo"
    /\ call.reqs[3].target = "RenderingControl#GetVolume"
    /\ call.val.status.Volume = 35

\* C23: once the transport state is obtained, a later failure keeps what was
\* obtained: the state returned is the device's transport state in lower
\* case; when the position was obtained too and the volume request failed,
\* song, artist and album are those of the position response and the volume
\* is 0.
C23_KeepsObtainedFields ==
    (IsSonosCall("GetStatus") /\ Obtained(call.reqs[1])) =>
       /\ call.err = ""
       /\ call.val.status.State = ToLower(call.reqs[1].resp.body.state)
       /\ \A i \in 1..Len(call.val.status.State) :
             LowerChar(SubSeq(call.val.status.State, i, i)) = SubSeq(call.val.status.State, i, i)
       /\ (Len(call.reqs) = 3 /\ ~Obtained(call.reqs[3])) =>
             LET md == parseSonosMetadata(call.reqs[2].resp.body.meta)
             IN  /\ call.val.status.Song = md.song
                 /\ call.val.status.Artist = md.artist
                 /\ call.val.status.Album = md.album
                 /\ call.val.status.Volume = 0
                 /\ call.reqs[2].resp.body.meta = TrackMeta =>
                       /\ call.val.status.Song = "So What"
                       /\ call.val.status.Artist = "Miles & Co"
                       /\ call.val.status.Album = "Kind of Blue"

C23_Witness ==
    /\ IsSonosCall("GetStatus")
    /\ Len(call.reqs) = 3
    /\ call.reqs[1].resp.body.state = "PLAYING"
    /\ call.reqs[3].resp.err
    /\ call.val.status =
          [State |-> "playing", Song |-> "So What", Artist |-> "Miles & Co",
           Album |-> "Kind of Blue", Volume |-> 0]

\* ------------------------------------------------------------------------
\* SOAP PlayPreset: the radio fallback
\* ------------------------------------------------------------------------

FallbackOrder ==
    <<"AVTransport#RemoveAllTracksFromQueue", "AVTransport#SetPlayMode",
      "AVTransport#AddURIToQueue", "AVTransport#Seek", "AVTransport#Play">>

\* Where the call's SetAVTransportURI requests are
SetURIAt == {j \in 1..Len(call.reqs) : call.reqs[j].target = "AVTransport#SetAVTransportURI"}

\* The favorites the id of the call names
Chosen == {i \in 1..Len(client.favorites) : client.favorites[i].ID = call.argInt}

\* PlayPreset's SetAVTransportURI was answered with a status other than 200,
\* for a favorite whose URI contains "x-sonosapi" or "radio".
FallbackTaken ==
    /\ IsSonosCall("PlayPreset")
    /\ \E j \in SetURIAt : ~call.reqs[j].resp.err /\ call.reqs[j].resp.status # 200
    /\ \E i \in Chosen : \/ Contains(client.favorites[i].URI, "x-sonosapi")
                         \/ Contains(client.favorites[i].URI, "radio")

\* The requests sent after the SetAVTransportURI request
SinceSetURI ==
    LET j == CHOOSE x \in SetURIAt : TRUE
    IN  SubSeq(call.reqs, j + 1, Len(call.reqs))

\* C24: when SetAVTransportURI is answered with a status other than 200 for
\* a streaming/radio URI, the requests that follow are RemoveAllTracksFromQueue,
\* SetPlayMode(NORMAL), AddURIToQueue, Seek(1), Play in that order, each at
\* most once, each after the answer to the one before; none of them is sent
\* before SetAVTransportURI was answered, and SetAVTransportURI is sent once.
C24_FallbackOrder ==
    FallbackTaken =>
       /\ Cardinality(SetURIAt) = 1
       /\ Len(SinceSetURI) \in {3, 5}
       /\ \A k \in 1..Len(SinceSetURI) : SinceSetURI[k].target = FallbackOrder[k]
       /\ SinceSetURI[2].arg = "NORMAL"
       /\ Len(SinceSetURI) = 5 => SinceSetURI[4].arg = "1"
       /\ \A j \in SetURIAt : \A k \in 1..j :
             \A f \in 1..Len(FallbackOrder) : call.reqs[k].target # FallbackOrder[f]

C24_Witness ==
    /\ FallbackTaken
    /\ Len(SinceSetURI) = 5
    /\ SinceSetURI[5].target = "AVTransport#Play"
    /\ SinceSetURI[3].arg = "x-sonosapi-stream:s1"
    /\ call.err = ""

\* C25: in the fallback a failed RemoveAllTracksFromQueue, SetPlayMode or
\* Seek neither stops the sequence nor is reported; a failed AddURIToQueue
\* ends it with an error, and neither Seek nor Play follows; when
\* AddURIToQueue succeeds PlayPreset returns what the final Play returns.
C25_FallbackFailurePolicy ==
    FallbackTaken =>
       /\ Len(SinceSetURI) >= 3
       /\ makeSoapRequest(SinceSetURI[3].resp).err # "" =>
             /\ Len(SinceSetURI) = 3
             /\ call.err = "failed to add radio to queue"
       /\ makeSoapRequest(SinceSetURI[3].resp).err = "" =>
             /\ Len(SinceSetURI) = 5
             /\ \E p \in SonosPlay(call.pre) : /\ p.reqs = <<SinceSetURI[5]>>
                                              /\ p.err = call.err
             /\ call.err = makeSoapRequest(SinceSetURI[5].resp).err

C25_Witness ==
    /\ FallbackTaken
    /\ Len(SinceSetURI) = 5
    /\ SinceSetURI[1].resp.err
    /\ SinceSetURI[2].resp.status = 500
    /\ SinceSetURI[4].resp.err
    /\ call.err = ""

\* ------------------------------------------------------------------------
\* Discovery: the probes of a scan (checked under SpecScan)
\* ------------------------------------------------------------------------

\* The host number of an address: what follows its last dot
HostNumber(ip) == Atoi(Split(ip, ".")[4])

\* The interface entry and the host number the t-th goroutine was started for
EntryOf(t) == ((t - 1) \div MaxHost) + 1
HostOf(t) == ((t - 1) % MaxHost) + 1

\* The inner loop is over and every interface entry was gone through
AllSpawned == mainpc \in {"wait", "select"} \/ fatalErr = ErrNoPlayers

BothFamilies == <<DeviceTypeBluOS, DeviceTypeSonos>>

\* C26: each goroutine is started for one interface entry and one host number
\* of 1..MaxHost (MaxHost stands for 254), never for host 0 or MaxHost + 1;
\* it sends at most one BluOS probe and then at most one Sonos probe to its
\* address, and both once it has ended; MaxHost goroutines are started per
\* interface entry, so an address is probed once per family for each entry
\* that enumerates its subnet.
C26_ProbesPerAddress ==
    /\ Len(tasks) <= MaxHost * Len(interfaces)
    /\ AllSpawned => Len(tasks) = MaxHost * Len(interfaces)
    /\ \A t \in TaskIds :
         /\ getSubnet(tasks[t].ip) = interfaces[EntryOf(t)].Subnet
         /\ HostNumber(tasks[t].ip) = [ok |-> TRUE, val |-> HostOf(t)]
         /\ HostNumber(tasks[t].ip).val \in 1..MaxHost
         /\ tasks[t].sent \in {<<>>, <<DeviceTypeBluOS>>, BothFamilies}
         /\ tasks[t].pc \in {"exit", "done"} => tasks[t].sent = BothFamilies
    /\ ScanReturned =>
         \A k \in 1..Len(interfaces) : \A i \in 1..MaxHost :
            Cardinality({t \in TaskIds : /\ tasks[t].ip = interfaces[k].Subnet \o "."
                                                          \o ToString(i)
                                         /\ tasks[t].sent = BothFamilies})
              = Cardinality({n \in 1..Len(interfaces) :
                               interfaces[n].Subnet = interfaces[k].Subnet})

\* A scan of two interface entries of one subnet has returned: the address
\* was probed twice per family, and the BluOS probe that found a device was
\* followed by the Sonos probe.
C26_Witness ==
    /\ mainpc = "select"
    /\ Len(interfaces) = 2
    /\ interfaces[1].Subnet = interfaces[2].Subnet
    /\ Len(tasks) = 2 * MaxHost
    /\ \A t \in TaskIds : tasks[t].sent = BothFamilies
    /\ \E n \in 1..Len(players) : players[n].Type = DeviceTypeBluOS

\* A goroutine at "probe" is inside checkForBluOSPlayer or
\* checkForSonosPlayer: the probe of that family is in flight until the
\* step Probe, which is its return.
InFlight(t, fam) == tasks[t].pc = "probe" /\ tasks[t].fam = fam

\* The goroutine has called the probe of the family: it is in flight or it
\* has returned.
Started(t, fam) ==
    \/ InFlight(t, fam)
    \/ \E n \in 1..Len(tasks[t].sent) : tasks[t].sent[n] = fam

\* C27 as stated: the two probes of an address are independent tasks started
\* together, so while the BluOS probe a goroutine was started for is in
\* flight the Sonos probe of that address has been started too and does not
\* wait for it.
C27_ProbesIndependent ==
    \A t \in TaskIds : InFlight(t, DeviceTypeBluOS) => Started(t, DeviceTypeSonos)

\* C27: one goroutine per interface entry and host number runs the BluOS
\* probe and then the Sonos probe: the Sonos probe is in flight only after
\* the BluOS probe has returned, so both probes of one address are in flight
\* together only in goroutines of two interface entries with one subnet;
\* goroutines are concurrent with each other.
C27_ProbesSequential ==
    /\ \A t \in TaskIds :
         /\ InFlight(t, DeviceTypeBluOS) => tasks[t].sent = <<>>
         /\ InFlight(t, DeviceTypeSonos) => tasks[t].sent = <<DeviceTypeBluOS>>
         /\ Started(t, DeviceTypeSonos) => ~InFlight(t, DeviceTypeBluOS)
    /\ \A t, u \in TaskIds :
         (/\ InFlight(t, DeviceTypeBluOS)
          /\ InFlight(u, DeviceTypeSonos)
          /\ tasks[t].ip = tasks[u].ip)
         => /\ EntryOf(t) # EntryOf(u)
            /\ interfaces[EntryOf(t)].Subnet = interfaces[EntryOf(u)].Subnet

\* The goroutine of one address is in its Sonos probe, its BluOS probe having
\* returned, while the goroutine of another address is in its BluOS probe.
C27_Witness ==
    \E t, u \in TaskIds :
        /\ tasks[t].ip # tasks[u].ip
        /\ InFlight(t, DeviceTypeBluOS)
        /\ InFlight(u, DeviceTypeSonos)
        /\ tasks[u].sent = <<DeviceTypeBluOS>>

\* ------------------------------------------------------------------------
\* Discovery under fair scheduling
\* ------------------------------------------------------------------------

\* A step of the scan that can be taken is eventually taken: a probe in
\* flight returns (at the latest at its timeout), a goroutine that can take
\* the mutex, release it or end does so, and main goes on when it can. This
\* is implied by weak fairness of every goroutine taken by itself.
SpecScanFair == InitScan /\ [][NextScan]_vars /\ WF_vars(NextScan)

\* Every goroutine that was started has ended, and nobody holds the mutex
AllProbesDone == mu = 0 /\ wg = 0 /\ \A t \in TaskIds : tasks[t].pc = "done"

\* A goroutine waits for the mutex
AwaitsMutex == \E t \in TaskIds : tasks[t].pc = "lock"

\* C28: once the scan has started its goroutines, and whenever a goroutine
\* waits for the mutex, the scan eventually passes wg.Wait() and returns with
\* every goroutine ended and the mutex free.
C28_ScanReturns ==
    (mainpc \in {"spawn", "wait"} \/ AwaitsMutex) ~> (ScanReturned /\ AllProbesDone)

\* One goroutine waits for the mutex another one holds while main is at
\* wg.Wait().
C28_Witness ==
    /\ mainpc = "wait"
    /\ wg = 2
    /\ \E t, u \in TaskIds : tasks[t].pc = "lock" /\ mu = u /\ t # u

\* ------------------------------------------------------------------------
\* The network enumerator's filter (checked under SpecScan)
\* ------------------------------------------------------------------------

\* The VirtualBox NAT range 10.0.2.0/24 and the Docker bridge range
\* 172.17.0.0/16, as the two exclusion tests of isUsefulNetwork spell them
InExcludedRange(ip) == HasPrefix(ip, "10.0.2.") \/ HasPrefix(ip, "172.17.")

\* The up, non-loopback IPv4 addresses of the machine
Candidates == IF osNet.err THEN <<>> ELSE IfaceCandidates(osNet.ifaces)

\* C29: once the interfaces are enumerated, the list holds no address of
\* 10.0.2.0/24 or 172.17.0.0/16 when some up, non-loopback IPv4 address lies
\* outside the two ranges: it is the candidates outside them, in order; when
\* every candidate lies inside them the list is all the candidates.
C29_ExcludesVirtualRanges ==
    (mainpc # "start" /\ ~osNet.err) =>
        IF \E n \in 1..Len(Candidates) : ~InExcludedRange(Candidates[n].IP)
        THEN interfaces = SelectSeq(Candidates, LAMBDA c : ~InExcludedRange(c.IP))
        ELSE interfaces = Candidates

\* ------------------------------------------------------------------------
\* ungroupAll (checked under SpecTUI)
\* ------------------------------------------------------------------------

\* The BluOS players of the list ungroupAll found, and those of them whose
\* name is not the session's player name
UngroupDevices ==
    SelectSeq(cmd.preState.availablePlayers, LAMBDA p : p.Type = DeviceTypeBluOS)
UngroupPeers ==
    SelectSeq(UngroupDevices, LAMBDA p : p.Name # cmd.preState.playerName)

\* The request came back without an error: it was answered with status 200
\* and a readable body
ReqOk(x) == ~x.rq.resp.err /\ x.rq.resp.status = 200 /\ ~x.rq.resp.readErr

\* What the reset loop sent: the requests between the RemoveSlave pairs and
\* the request of updateStatus
ResetSent == SubSeq(cmd.reqs, 2 * Len(UngroupPeers) + 1, Len(cmd.reqs) - 1)

\* The requests of the reset loop sent to one device
ResetsTo(player) ==
    SelectSeq(ResetSent, LAMBDA x : x.base = NewBluesoundClient(player.IP).baseURL)

RECURSIVE ResetsInOrder(_)
ResetsInOrder(k) ==
    IF k > Len(UngroupDevices) THEN <<>>
    ELSE ResetsTo(UngroupDevices[k]) \o ResetsInOrder(k + 1)

\* standaloneMethods in order, each tried only after the ones before it
\* failed, none after one that succeeded
StopsAtFirstSuccess(run) ==
    /\ Len(run) \in 1..Len(standaloneMethods)
    /\ \A k \in 1..Len(run) : /\ run[k].rq.via = "GET"
                              /\ run[k].rq.target = standaloneMethods[k]
                              /\ k < Len(run) => ~ReqOk(run[k])
    /\ Len(run) < Len(standaloneMethods) => ReqOk(run[Len(run)])

PlaceholdersCached ==
    /\ cmd.name \notin {"", "main"}
    /\ cmd.preClient.type = DeviceTypeSonos
    /\ cmd.preClient.favorites = InfoFavorites

\* The command sent a ContentDirectory Browse
CmdBrowsed ==
    \E k \in 1..Len(cmd.reqs) : cmd.reqs[k].rq.target = "ContentDirectory#Browse"

\* The Browse requests of the reload that ends DebugAPI
DebugReload == SubSeq(CmdReqs, Len(CmdReqs) - Len(radioObjectIDs) + 1, Len(CmdReqs))

VolumeAskedAt ==
    {k \in 1..Len(call.reqs) : call.reqs[k].target = "RenderingControl#GetVolume"}

\* C32: a SOAP GetStatus sends GetVolume exactly when GetTransportInfo and
\* GetPositionInfo were both answered and unmarshalled, and then as its third
\* request; when GetPositionInfo fails or its body is malformed the call
\* ends there, with no error, the transport state, no track and volume 0.
C32_VolumeAfterPosition ==
    IsSonosCall("GetStatus") =>
       /\ VolumeAskedAt # {} <=>
             (Len(call.reqs) >= 2 /\ Obtained(call.reqs[1]) /\ Obtained(call.reqs[2]))
       /\ VolumeAskedAt \subseteq {3}
       /\ (Len(call.reqs) >= 2 /\ ~Obtained(call.reqs[2])) =>
             /\ Len(call.reqs) = 2
             /\ call.err = ""
             /\ call.val.status =
                   [State |-> ToLower(call.reqs[1].resp.body.state), Song |-> "",
                    Artist |-> "", Album |-> "", Volume |-> 0]

\* The device plays, its answer to GetPositionInfo cannot be unmarshalled:
\* the status has the state alone.
C32_Witness ==
    /\ IsSonosCall("GetStatus")
    /\ Len(call.reqs) = 2
    /\ makeSoapRequest(call.reqs[2].resp).err = ""
    /\ UnmarshalEnvelopeFails(call.reqs[2].resp.body)
    /\ call.val.status.State = "playing"
    /\ call.val.status.Volume = 0

\* ------------------------------------------------------------------------
\* SOAP PlayPreset: when the fallback is entered (checked under SpecClient)
\* ------------------------------------------------------------------------

\* PlayPreset got as far as its SetAVTransportURI request
SetURISent == IsSonosCall("PlayPreset") /\ SetURIAt # {}

\* The answer to it, and the URI of the favorite played
SetURIAnswer == call.reqs[CHOOSE j \in SetURIAt : TRUE].resp
PlayedURI == client.favorites[CHOOSE i \in Chosen : TRUE].URI

\* The call sent a request only playRadioStation sends
FallbackEntered ==
    \E k \in 1..Len(call.reqs) : \E f \in 1..4 : call.reqs[k].target = FallbackOrder[f]

\* C33: PlayPreset enters the queue fallback exactly when SetAVTransportURI
\* was answered with a status other than 200 and the favorite's URI contains
\* "x-sonosapi" or "radio"; when the request got no answer, and when another
\* URI was answered with a status other than 200, PlayPreset returns an
\* error and SetAVTransportURI is its last request.
C33_FallbackCondition ==
    SetURISent =>
       /\ FallbackEntered <=>
             /\ ~SetURIAnswer.err
             /\ SetURIAnswer.status # 200
             /\ Contains(PlayedURI, "x-sonosapi") \/ Contains(PlayedURI, "radio")
       /\ SetURIAnswer.err =>
             /\ SinceSetURI = <<>>
             /\ call.err = "SOAP request failed"
       /\ (/\ ~SetURIAnswer.err
           /\ SetURIAnswer.status # 200
           /\ ~Contains(PlayedURI, "x-sonosapi")
           /\ ~Contains(PlayedURI, "radio")) =>
             /\ SinceSetURI = <<>>
             /\ call.err = "SetAVTransportURI failed with status "
                             \o ToString(SetURIAnswer.status)

\* A plain http stream was refused with status 500: an error, and nothing
\* sent after SetAVTransportURI.
C33_Witness ==
    /\ SetURISent
    /\ PlayedURI = "http://s.example/rnb"
    /\ SetURIAnswer = HttpResp(500, SoapNotXml)
    /\ SinceSetURI = <<>>
    /\ call.err = "SetAVTransportURI failed with status 500"

\* SetAVTransportURI was answered with status 200
SetURIAccepted == SetURISent /\ ~SetURIAnswer.err /\ SetURIAnswer.status = 200

\* C34: when SetAVTransportURI is answered with status 200, PlayPreset sends
\* one Play request after it and nothing else, no request of the fallback,
\* and returns what that Play returns.
C34_PlayAfterAcceptedURI ==
    SetURIAccepted =>
       /\ Len(SinceSetURI) = 1
       /\ SinceSetURI[1].via = "SOAP"
       /\ SinceSetURI[1].target = "AVTransport#Play"
       /\ ~FallbackEntered
       /\ call.err = makeSoapRequest(SinceSetURI[1].resp).err
       /\ \E p \in SonosPlay(call.pre) : p.reqs = SinceSetURI /\ p.err = call.err

\* The URI of a radio favorite was accepted and the Play after it refused:
\* PlayPreset returns the error of Play and does not fall back.
C34_Witness ==
    /\ SetURIAccepted
    /\ Contains(PlayedURI, "x-sonosapi")
    /\ Len(SinceSetURI) = 1
    /\ SinceSetURI[1].resp = HttpResp(500, SoapNotXml)
    /\ call.err # ""

\* ------------------------------------------------------------------------
\* SOAP PlayPreset: favorites without a URI (checked under SpecClient)
\* ------------------------------------------------------------------------

\* The requests of the call that carry a URI to the device
URICarriers ==
    {k \in 1..Len(call.reqs) :
        call.reqs[k].target \in {"AVTransport#SetAVTransportURI", "AVTransport#AddURIToQueue"}}

\* PlayPreset named a favorite that is no placeholder and has no URI
EmptyURIPlayed ==
    /\ IsSonosCall("PlayPreset")
    /\ Chosen # {}
    /\ PlayedURI = ""
    /\ ~HasPrefix(client.favorites[CHOOSE i \in Chosen : TRUE].Name, "[INFO]")

\* C35: no SetAVTransportURI and no AddURIToQueue request carries an empty
\* URI; PlayPreset of a favorite that is no placeholder and has an empty URI
\* returns the no-URI error and sends no playback request.
C35_NoEmptyURI ==
    /\ \A k \in URICarriers : call.reqs[k].arg # ""
    /\ EmptyURIPlayed =>
          /\ call.err = ErrNoURI
          /\ URICarriers = {}
          /\ \A k \in 1..Len(call.reqs) : call.reqs[k].target \notin PlaybackActions

\* "Stream One", an item with a title and no res element that its name kept
\* in the list, is played on a session that has just loaded its favorites.
C35_Witness ==
    /\ EmptyURIPlayed
    /\ client.favorites[CHOOSE i \in Chosen : TRUE].Name = "Stream One"
    /\ call.pre.favorites = <<>>
    /\ call.err = ErrNoURI

\* ------------------------------------------------------------------------
\* groupPlayers: what it leaves behind (checked under SpecTUI)
\* ------------------------------------------------------------------------

\* A group command with a specification groupPlayers carries out
GroupCarriedOut == cmd.name = "group" /\ Groupable(cmd.arg, cmd.preState.availablePlayers)

\* The master the specification names
GroupMaster == cmd.preState.availablePlayers[Ordinals(cmd.arg).master]

\* C36: for a valid group specification the active client is a new client of
\* the master and the player name is the master's, and AddSlave, the first
\* request, is sent by that client; when AddSlave fails the command ends
\* there with the grouping error: client and name stay the master's and
\* status, status error and presets stay those shown before; when it
\* succeeds the status is asked of the master.
C36_GroupSwitchesToMaster ==
    GroupCarriedOut =>
       /\ client = NewBluesoundClient(GroupMaster.IP)
       /\ tuiState.playerName = GroupMaster.Name
       /\ tuiState.availablePlayers = cmd.preState.availablePlayers
       /\ tuiState.presets = cmd.preState.presets
       /\ Len(cmd.reqs) >= 1
       /\ cmd.reqs[1].base = NewBluesoundClient(GroupMaster.IP).baseURL
       /\ HasPrefix(cmd.reqs[1].rq.target, "/AddSlave")
       /\ ~ReqOk(cmd.reqs[1]) =>
             /\ Len(cmd.reqs) = 1
             /\ cmd.lastAction = "error_grouping"
             /\ tuiState.status = cmd.preState.status
             /\ tuiState.statusError = cmd.preState.statusError
       /\ ReqOk(cmd.reqs[1]) =>
             /\ Len(cmd.reqs) = 2
             /\ cmd.reqs[2].base = NewBluesoundClient(GroupMaster.IP).baseURL
             /\ cmd.reqs[2].rq.target = "/Status"
             /\ cmd.lastAction = "grouped_players"

\* "group 2+1" given on the first player's session, AddSlave failed: the
\* session is the second player's, the status shown is still the one
\* obtained from the first.
C36_Witness ==
    /\ GroupCarriedOut
    /\ cmd.arg = "2+1"
    /\ ClientAddr(cmd.preClient) = cmd.preState.availablePlayers[1].IP
    /\ ~ReqOk(cmd.reqs[1])
    /\ ClientAddr(client) = cmd.preState.availablePlayers[2].IP
    /\ tuiState.playerName = cmd.preState.availablePlayers[2].Name
    /\ ~tuiState.status.nil
    /\ tuiState.status = cmd.preState.status

\* ------------------------------------------------------------------------
\* switchToPlayer: what it leaves alone, what it renews (checked under
\* SpecTUI)
\* ------------------------------------------------------------------------

\* The ordinal of an output command, when its word is a number
OutputOrdinal == Atoi(cmd.arg).val

\* An output command with a number that names no discovered device
OutputOutOfRange ==
    /\ cmd.name = "output"
    /\ Atoi(cmd.arg).ok
    /\ OutputOrdinal < 1 \/ OutputOrdinal > Len(cmd.preState.availablePlayers)

\* An output command with the ordinal of a Sonos device
OutputToSonos ==
    /\ cmd.name = "output"
    /\ Atoi(cmd.arg).ok
    /\ OutputOrdinal \in 1..Len(cmd.preState.availablePlayers)
    /\ cmd.preState.availablePlayers[OutputOrdinal].Type = DeviceTypeSonos

\* The last requests of the command, as many as there are content roots
LastBrowse == SubSeq(CmdReqs, Len(CmdReqs) - Len(radioObjectIDs) + 1, Len(CmdReqs))

\* C37: an output command with an ordinal below 1 or above the number of
\* discovered devices sends nothing and leaves client, player name, status
\* and presets as they were. A switch to a Sonos device binds a client whose
\* favorites cache is empty: every request of the command goes to that
\* device, the favorites are browsed anew, and the cache and the presets
\* shown are what that load yields, whatever an earlier session on the
\* device had cached.
C37_SwitchFrame ==
    /\ OutputOutOfRange =>
          /\ cmd.reqs = <<>>
          /\ client = cmd.preClient
          /\ tuiState = cmd.preState
          /\ cmd.lastAction = "invalid_player_id"
    /\ OutputToSonos =>
          /\ NewSonosClient(cmd.preState.availablePlayers[OutputOrdinal].IP).favorites = <<>>
          /\ SameDevice(client, NewSonosClient(cmd.preState.availablePlayers[OutputOrdinal].IP))
          /\ tuiState.playerName = cmd.preState.availablePlayers[OutputOrdinal].Name
          /\ \A k \in 1..Len(cmd.reqs) : cmd.reqs[k].base = client.baseURL
          /\ Len(CmdReqs) > Len(radioObjectIDs)
          /\ IsFavoritesBrowse(LastBrowse)
          /\ client.favorites
               = LoadFrom([k \in 1..Len(LastBrowse) |-> LastBrowse[k].resp]).favorites
          /\ tuiState.presets = PresetsOf(client.favorites)

\* The output command names the Sonos device the session is already on,
\* whose cache held stations: the new session browses again and, the roots
\* now being empty, ends with the placeholders.
C37_Witness ==
    /\ OutputToSonos
    /\ cmd.preClient.type = DeviceTypeSonos
    /\ ClientAddr(cmd.preClient) = cmd.preState.availablePlayers[OutputOrdinal].IP
    /\ Len(cmd.preClient.favorites) > 0
    /\ cmd.preClient.favorites # InfoFavorites
    /\ client.favorites = InfoFavorites

\* ------------------------------------------------------------------------
\* The discovered devices (checked under SpecTUI)
\* ------------------------------------------------------------------------

\* The commands of the interactive loop
LoopCommands ==
    {"play", "pause", "stop", "next", "prev", "vol", "status", "presets", "help",
     "output", "group", "ungroup", "debug", "lang"}

\* C38: no step of the interactive session changes the list of discovered
\* devices main stored: after the initial load and after every command it
\* has the entries it had, in the order it had them.
C38_PlayersFixed ==
    [][/\ tuiState'.availablePlayers = tuiState.availablePlayers
       /\ cmd'.name \in LoopCommands => cmd'.preState.availablePlayers
                                          = tuiState.availablePlayers]_vars

\* A group command has moved the session from the first of three devices to
\* the second; the list is the one the command found.
C38_Witness ==
    /\ cmd.name = "group"
    /\ cmd.lastAction = "grouped_players"
    /\ ClientAddr(cmd.preClient) # ClientAddr(client)
    /\ Len(tuiState.availablePlayers) = 3
    /\ tuiState.availablePlayers = cmd.preState.availablePlayers
    /\ tuiState.availablePlayers \in PlayerLists

\* ------------------------------------------------------------------------
\* Discovery: what the result depends on (checked under SpecScanLogged)
\* ------------------------------------------------------------------------

\* The scan with what every probe reported kept on record.
NextScanLogged ==
    \/ ScanStart
    \/ Spawn
    \/ ScanReturn
    \/ \E t \in TaskIds : ProbeLogged(t)
    \/ \E t \in TaskIds : LockAndCheck(t)
    \/ \E t \in TaskIds : AppendAndUnlock(t)
    \/ \E t \in TaskIds : TaskExit(t)

SpecScanLogged == InitScan /\ [][NextScanLogged]_vars

\* The addresses of a slice of players
AddressesOf(ps) == {ps[n].IP : n \in 1..Len(ps)}

\* The addresses at which a probe that has returned reported a player
FoundAddresses ==
    {tasks[t].ip : t \in {u \in TaskIds : \E n \in 1..Len(tasks[u].found) : tasks[u].found[n]}}

\* C39: the addresses in the slice the scan returns are the addresses at
\* which at least one probe reported a player, each once, whatever the order
\* in which the goroutines ran; while the scan runs the slice holds only
\* such addresses.
C39_ResultSet ==
    /\ AddressesOf(players) \subseteq FoundAddresses
    /\ ScanReturned =>
          /\ AddressesOf(selPlayers) = FoundAddresses
          /\ Len(selPlayers) = Cardinality(FoundAddresses)

\* Two addresses answered; the scan returned the one probed by the second
\* goroutine ahead of the one probed by the first.
C39_Witness ==
    /\ mainpc = "select"
    /\ Len(tasks) = 2 * MaxHost
    /\ Len(selPlayers) = 2
    /\ selPlayers[1].IP = tasks[Len(tasks)].ip
    /\ selPlayers[2].IP = tasks[1].ip

====
